---- MODULE Spec2Model ----
(***************************************************************************)
(* Magnitude self-improvement framework: the feedback queue                *)
(* (lib/human-feedback.js), the session orchestrator (index.js), the       *)
(* self-modification system and the memory system (lib/self-modify.js) and *)
(* the continuous learning loop (part_002) as state machines.              *)
(*                                                                         *)
(* Every handler is one action.  A handler that can be interrupted by a    *)
(* throwing file-system call takes the failing call as an input ("io").    *)
(* A failed write leaves the previous file content in place.               *)
(***************************************************************************)
EXTENDS Integers, Sequences, FiniteSets, TLC

\* ------------------------------------------------------------------ bounds
MaxItems == 2        \* feedback items created in one run of the model
MaxTime == 1         \* last value of the feedback clock
MaxFaults == 1       \* file-system calls that fail in one run of the model
MaxCap == 2          \* largest maxBackups option given to the constructor
MaxSmTime == 2       \* last value of the self-modification clock
MaxBackupCalls == 3  \* createBackup calls in one run of the model
MaxLog == 2          \* longest modification log
MaxTasks == 3        \* largest tasksPerSession option
MaxSchedTasks == 2   \* addTask calls in one run of the model
MaxInFlight == 2     \* checkAndRunTasks runs awaiting a task at one time
MaxMinutes == 1      \* timer periods the scheduler clock advances minute by minute
MaxRemoves == 1      \* removeTask calls in one run of the model
MaxInterval == 3     \* largest interval of an hourly frequency spec tried alone
MaxWords == 2        \* words of an error text given to categorizeFailure alone
MaxEdits == 1        \* edits of one project file between backups and reverts
MaxEntries == 2      \* entries of knowledge.json
MaxSessions == 3     \* recordSession calls in one run of the model
MaxResults == 2      \* largest nResults given to semanticSearch

NULL == "null"       \* JavaScript null / undefined

VARIABLES
    \* HumanFeedbackLoop, in memory
    pending, approved, rejected,
    \* HumanFeedbackLoop, persisted: pending/queue.json, approved/approved.json,
    \* rejected/rejected.json and the per-item files <dir>/<id>.json
    diskPending, diskApproved, diskRejected, itemFiles,
    nextUuid,        \* number of uuidv4() values handed out so far
    fbNow,           \* the clock read by new Date() / Date.now()
    fbLast,          \* the last HumanFeedbackLoop call and its outcome
    faults,          \* file-system calls that have failed so far
    \* SelfModificationSystem
    projFiles,       \* the files under projectPath: name -> content, -1 absent
    backups,         \* the directories under backupPath: timestamp -> snapshot
    modificationLog, \* this.modificationLog
    maxBackups,      \* this.maxBackups
    smNow,           \* the clock read by new Date()
    backupCalls,     \* the timestamps of the createBackup calls made so far
    filesAtBackup,   \* history: timestamp -> the project files when
                     \* createBackup was last called at that time
    smLast,          \* the last SelfModificationSystem call and its outcome
    \* MagnitudeSelfImprover.runSession
    sessPc,          \* where runSession stands
    sessTasks,       \* the prioritized task list: the reason of each task
    taskIdx,         \* tasks the loop has gone through
    tasksCompleted, tasksFailed, verificationsPassed,   \* this.sessionMetrics
    taskOutcomes,    \* per task: the step of executeTask that threw, or "none"
    taskScores,      \* per task: the qualityScore executeTask got, or -1
    synthCalls,      \* synthesize() calls made
    topTags,         \* the number of tags generateInsights() gave runSynthesis
    improveCalls,    \* the error texts runReflection passed to improve()
    metricsSessions, \* metrics.json: sessions
    totalTasks,      \* metrics.json: totalTasks
    enableSelfModification,
    sessLog,         \* the steps of runSession that have ended, in order
    \* ContinuousLearningLoop
    clock,           \* the clock read by new Date() / Date.now(), in ms
    taskObjs,        \* the task objects ever created: creation number -> task
    arrays,          \* the arrays this.schedule.tasks has been, as creation numbers
    schedGen,        \* which of `arrays` this.schedule.tasks is now
    schedEnabled,    \* this.schedule.enabled
    schedLastRun,    \* this.schedule.lastRun
    isRunning,       \* this.isRunning
    hasRunner,       \* whether a sessionRunner was given to the constructor
    timers,          \* the interval timers that are active: id -> next firing
    checkInterval,   \* this.checkInterval: a timer id, 0 for undefined
    ticks,           \* the checkAndRunTasks runs that await a task
    schedLast,       \* the last ContinuousLearningLoop step and its outcome
    \* MemorySystem
    knowledge,       \* knowledge.json: entries
    vectorMemory,    \* whether this.vectorMemory is set
    vectorIndex,     \* the ids the similarity backend has stored
    memLast          \* the last MemorySystem call and its outcome

fbVars == <<pending, approved, rejected, diskPending, diskApproved,
            diskRejected, itemFiles, nextUuid, fbNow, fbLast>>

smVars == <<projFiles, backups, modificationLog, maxBackups, smNow,
            backupCalls, filesAtBackup, smLast>>

sessVars == <<sessPc, sessTasks, taskIdx, tasksCompleted, tasksFailed,
              verificationsPassed, taskOutcomes, taskScores, synthCalls, topTags, improveCalls,
              metricsSessions, totalTasks, enableSelfModification, sessLog>>

schedVars == <<clock, taskObjs, arrays, schedGen, schedEnabled, schedLastRun,
               isRunning, hasRunner, timers, checkInterval, ticks,
               schedLast>>

memVars == <<knowledge, vectorMemory, vectorIndex, memLast>>

vars == <<pending, approved, rejected, diskPending, diskApproved,
          diskRejected, itemFiles, nextUuid, fbNow, fbLast, faults,
          projFiles, backups, modificationLog, maxBackups, smNow,
          backupCalls, filesAtBackup, smLast,
          sessPc, sessTasks, taskIdx, tasksCompleted, tasksFailed,
          verificationsPassed, taskOutcomes, taskScores, synthCalls, topTags, improveCalls,
          metricsSessions, totalTasks, enableSelfModification, sessLog,
          clock, taskObjs, arrays, schedGen, schedEnabled, schedLastRun,
          isRunning, hasRunner, timers, checkInterval, ticks,
          schedLast, knowledge, vectorMemory, vectorIndex, memLast>>

notFb == <<projFiles, backups, modificationLog, maxBackups, smNow,
           backupCalls, filesAtBackup, smLast, sessVars, schedVars, memVars>>
notSm == <<fbVars, sessVars, schedVars, memVars>>
notSched == <<fbVars, smVars, sessVars, memVars>>
notSess == <<schedVars, memVars>>
notMem == <<fbVars, smVars, sessVars, schedVars>>

\* a handler in which `n` file-system calls fail
Fault(n) ==
    /\ faults + n <= MaxFaults
    /\ faults' = faults + n

\* ------------------------------------------------------------- sequences
Range(s) == {s[i] : i \in 1..Len(s)}

\* Array.prototype.findIndex(i => i.id === id), 1-based; 0 stands for -1
FindIndex(list, id) ==
    IF \E i \in 1..Len(list) : list[i].id = id
    THEN CHOOSE i \in 1..Len(list) :
             /\ list[i].id = id
             /\ \A j \in 1..(i - 1) : list[j].id # id
    ELSE 0

\* Array.prototype.splice(index, 1)
SpliceKeepsItem(list, index) == list

Splice(list, index) ==
    [k \in 1..(Len(list) - 1) |-> IF k < index THEN list[k] ELSE list[k + 1]]

\* ------------------------------------------------------ HumanFeedbackLoop
\* Field values: ids are strings; NULL is null/undefined for string fields;
\* reviewedAt = -1 is null; rating = 0 is null/undefined (the code reads a
\* rating only as `i.rating || 3`); confidence is in percent, -1 is undefined.

\* uuidv4(): the n-th value handed out; no two are equal
Uuidv4(n) == <<"u1", "u2", "u3", "u4", "u5", "u6", "u7", "u8">>[n]

\* an id a caller may put into the record passed to queueForReview
CallerOwnId == "ext"

\* the record built by queueForReview with `status` placed before `...item`
NewFeedbackItemStatusFirst(item, n, now) ==
    [uid |-> n,
     id |-> IF item.id = NULL THEN Uuidv4(n) ELSE item.id,
     status |-> IF item.status = NULL THEN "pending" ELSE item.status,
     confidence |-> item.confidence,
     reviewedAt |-> -1, reviewer |-> NULL,
     comments |-> NULL, corrections |-> NULL, rating |-> 0]

\* the record built by queueForReview: `id: uuidv4(), ...item, status: 'pending', ...`
\* (a caller-supplied id overrides the uuid, a caller-supplied status is
\* overridden).  uid is the creation number of the object, not a field of it;
\* createdAt, which no handler reads, is left out.
NewFeedbackItem(item, n, now) ==
    [uid |-> n,
     id |-> IF item.id = NULL THEN Uuidv4(n) ELSE item.id,
     status |-> "pending",
     confidence |-> item.confidence,
     reviewedAt |-> -1, reviewer |-> NULL,
     comments |-> NULL, corrections |-> NULL, rating |-> 0]

\* saveQueue: three writes inside one try; the first failing write skips the
\* rest and the error is swallowed.  failAt = 0: no write fails.
SaveQueue(p, a, r, dp, da, dr, failAt) ==
    [dp |-> IF failAt = 1 THEN dp ELSE p,
     da |-> IF failAt \in {1, 2} THEN da ELSE a,
     dr |-> IF failAt \in {1, 2, 3} THEN dr ELSE r]

\* the item as changed by submitReview
ReviewedItem(item, review, now) ==
    [item EXCEPT !.status = IF review.approved THEN "approved" ELSE "rejected",
                 !.reviewedAt = now,
                 !.reviewer = IF review.reviewer = NULL THEN "human" ELSE review.reviewer,
                 !.comments = review.comments,
                 !.corrections = review.corrections,
                 !.rating = review.rating]

\* approve(id, comments) and reject(id, reason) as reviews
ApproveReview(comments) ==
    [approved |-> TRUE, reviewer |-> NULL, comments |-> comments,
     corrections |-> NULL, rating |-> 5]
RejectReview(reason) ==
    [approved |-> FALSE, reviewer |-> NULL, comments |-> reason,
     corrections |-> NULL, rating |-> 1]

\* Array.prototype.filter(i => new Date(i.reviewedAt).getTime() >= cutoff)
RECURSIVE KeepReviewedSince(_, _)
KeepReviewedSince(list, cutoff) ==
    IF list = <<>> THEN <<>>
    ELSE IF Head(list).reviewedAt >= cutoff
         THEN <<Head(list)>> \o KeepReviewedSince(Tail(list), cutoff)
         ELSE KeepReviewedSince(Tail(list), cutoff)

\* the feedback loop's fields and files as one record
FbState ==
    [pending |-> pending, approved |-> approved, rejected |-> rejected,
     dp |-> diskPending, da |-> diskApproved, dr |-> diskRejected,
     files |-> itemFiles, next |-> nextUuid]

\* which file-system call of a handler throws ("ok": none)
QueueIo == {"ok", "itemFile", "save1", "save2", "save3"}
ReviewIo == {"ok", "destFile", "unlink", "save1", "save2", "save3"}
SaveFailAt(io) ==
    CASE io = "save1" -> 1 [] io = "save2" -> 2 [] io = "save3" -> 3 [] OTHER -> 0

QueueForReviewOnMerging(fb, item, now, io) ==
    LET n == fb.next + 1
        fi == NewFeedbackItem(item, n, now)
        p2 == IF \E k \in 1..Len(fb.pending) :
                     fb.pending[k].confidence = item.confidence
              THEN fb.pending ELSE Append(fb.pending, fi)
        sv == SaveQueue(p2, fb.approved, fb.rejected, fb.dp, fb.da, fb.dr,
                        SaveFailAt(io))
    IN  IF io = "itemFile"
        THEN [fb EXCEPT !.pending = p2, !.next = n]
        ELSE [fb EXCEPT !.pending = p2, !.next = n,
                        !.files = @ \cup {<<"pending", fi.id>>},
                        !.dp = sv.dp, !.da = sv.da, !.dr = sv.dr]

\* queueForReview(item): the state it leaves.  The push to this.pending comes
\* before the write of pending/<id>.json, which is outside any try.
QueueForReviewOn(fb, item, now, io) ==
    LET n == fb.next + 1
        fi == NewFeedbackItem(item, n, now)
        p2 == Append(fb.pending, fi)
        sv == SaveQueue(p2, fb.approved, fb.rejected, fb.dp, fb.da, fb.dr,
                        SaveFailAt(io))
    IN  IF io = "itemFile"
        THEN [fb EXCEPT !.pending = p2, !.next = n]
        ELSE [fb EXCEPT !.pending = p2, !.next = n,
                        !.files = @ \cup {<<"pending", fi.id>>},
                        !.dp = sv.dp, !.da = sv.da, !.dr = sv.dr]

\* submitReview once the item is found at `index` of this.pending.  The
\* in-memory move comes first; the write of <dest>/<id>.json and the unlink
\* are outside any try.
SubmitReviewFound(fb, index, review, now, io) ==
    LET item == ReviewedItem(fb.pending[index], review, now)
        p2 == Splice(fb.pending, index)
        a2 == IF review.approved THEN Append(fb.approved, item) ELSE fb.approved
        r2 == IF review.approved THEN fb.rejected ELSE Append(fb.rejected, item)
        destDir == IF review.approved THEN "approved" ELSE "rejected"
        moved == [fb EXCEPT !.pending = p2, !.approved = a2, !.rejected = r2]
        f2 == fb.files \cup {<<destDir, item.id>>}
        sv == SaveQueue(p2, a2, r2, fb.dp, fb.da, fb.dr, SaveFailAt(io))
    IN  CASE io = "destFile" -> moved
          [] io = "unlink" -> [moved EXCEPT !.files = f2]
          [] OTHER -> [moved EXCEPT !.files = f2 \ {<<"pending", item.id>>},
                                     !.dp = sv.dp, !.da = sv.da, !.dr = sv.dr]

\* submitReview that looks the id up as getItem does, in all three lists, and
\* reviews a reviewed item again in place
SubmitReviewOnGetItem(fb, id, review, now, io) ==
    LET index == FindIndex(fb.pending, id)
        ia == FindIndex(fb.approved, id)
        ir == FindIndex(fb.rejected, id)
    IN  IF index # 0 THEN SubmitReviewFound(fb, index, review, now, io)
        ELSE IF ia # 0
        THEN [fb EXCEPT !.approved[ia] = ReviewedItem(fb.approved[ia], review, now)]
        ELSE IF ir # 0
        THEN [fb EXCEPT !.rejected[ir] = ReviewedItem(fb.rejected[ir], review, now)]
        ELSE fb

\* submitReview(id, review): the state it leaves
SubmitReviewOn(fb, id, review, now, io) ==
    LET index == FindIndex(fb.pending, id)
    IN  IF index = 0 THEN fb
        ELSE SubmitReviewFound(fb, index, review, now, io)

\* the value submitReview returns (when it returns)
SubmitReviewResult(fb, id) ==
    IF FindIndex(fb.pending, id) = 0
    THEN [success |-> FALSE, error |-> "Item not found"]
    ELSE [success |-> TRUE, error |-> NULL]

\* whether submitReview throws instead of returning
SubmitReviewThrows(fb, id, io) ==
    FindIndex(fb.pending, id) # 0 /\ io \in {"destFile", "unlink"}

\* an autoQueue whose test is `item.confidence <= confidenceThreshold`
BelowOrAtThreshold(confidence, threshold) ==
    confidence # -1 /\ confidence <= threshold

\* `item.confidence < confidenceThreshold`; undefined < x is false
BelowThreshold(confidence, threshold) ==
    confidence # -1 /\ confidence < threshold

\* autoQueue(items, threshold): items are confidences, ios[k] the failing call
\* of the queueForReview made for items[k]; a throw ends the loop.
RECURSIVE AutoQueueOn(_, _, _, _, _, _)
AutoQueueOn(fb, items, threshold, now, ios, k) ==
    IF k > Len(items) THEN [fb |-> fb, threw |-> FALSE, faults |-> 0]
    ELSE IF BelowThreshold(items[k], threshold)
         THEN LET fb2 == QueueForReviewOn(
                            fb, [id |-> NULL, status |-> NULL, confidence |-> items[k]],
                            now, ios[k])
                  f == IF ios[k] = "ok" THEN 0 ELSE 1
              IN  IF ios[k] = "itemFile"
                  THEN [fb |-> fb2, threw |-> TRUE, faults |-> f]
                  ELSE LET rest == AutoQueueOn(fb2, items, threshold, now, ios, k + 1)
                       IN  [rest EXCEPT !.faults = @ + f]
         ELSE AutoQueueOn(fb, items, threshold, now, ios, k + 1)

\* the first n elements of s (Array.prototype.slice(0, n))
Take(s, n) == [k \in 1..(IF n < Len(s) THEN n ELSE Len(s)) |-> s[k]]

RECURSIVE ReviewedBefore(_, _)
ReviewedBefore(list, cutoff) ==
    IF list = <<>> THEN <<>>
    ELSE IF Head(list).reviewedAt < cutoff
         THEN <<Head(list)>> \o ReviewedBefore(Tail(list), cutoff)
         ELSE ReviewedBefore(Tail(list), cutoff)

\* archiveOldItems(daysOld): failWrite = k > 0: the k-th write to archived/
\* throws (k = 1 also stands for a failing mkdir); the in-memory list is
\* filtered only after all writes.
ArchiveOldItemsOn(fb, daysOld, now, failWrite, io) ==
    LET cutoff == now - daysOld
        old == ReviewedBefore(fb.approved, cutoff)
        written == IF failWrite = 0 THEN old ELSE Take(old, failWrite - 1)
        f2 == fb.files \cup {<<"archived", written[k].id>> : k \in 1..Len(written)}
        a2 == KeepReviewedSince(fb.approved, cutoff)
        sv == SaveQueue(fb.pending, a2, fb.rejected, fb.dp, fb.da, fb.dr,
                        SaveFailAt(io))
    IN  IF failWrite # 0 THEN [fb EXCEPT !.files = f2]
        ELSE [fb EXCEPT !.approved = a2, !.files = f2,
                        !.dp = sv.dp, !.da = sv.da, !.dr = sv.dr]

\* ---- inputs of the feedback loop's callers
AllItems == pending \o approved \o rejected
KnownIds == {AllItems[k].id : k \in 1..Len(AllItems)}

\* records passed to queueForReview: a fresh one, or one that carries an id
\* and a status of its own (a copy of an item, or a caller's own id)
ItemInputs ==
    {[id |-> NULL, status |-> NULL, confidence |-> -1]}
    \cup {[id |-> i, status |-> "approved", confidence |-> -1] :
             i \in {CallerOwnId} \cup KnownIds}

\* ids passed to submitReview / approve / reject
ReviewIds == {Uuidv4(k) : k \in 1..nextUuid} \cup {CallerOwnId, "nope"}

DirectReviews ==
    {[approved |-> b, reviewer |-> r, comments |-> NULL,
      corrections |-> IF b THEN NULL ELSE "fix",
      rating |-> IF b THEN 0 ELSE 3] :
        b \in BOOLEAN, r \in {"alice"}}

\* autoQueue inputs: the confidences of the items, in percent
AutoQueueInputs == {<<50>>, <<70>>, <<90, 50>>, <<50, -1>>, <<69, 50>>}
DefaultThreshold == 70

\* ---- actions of the feedback loop
SetFb(fb) ==
    /\ pending' = fb.pending
    /\ approved' = fb.approved
    /\ rejected' = fb.rejected
    /\ diskPending' = fb.dp
    /\ diskApproved' = fb.da
    /\ diskRejected' = fb.dr
    /\ itemFiles' = fb.files
    /\ nextUuid' = fb.next

QueueForReview(item, io) ==
    /\ nextUuid < MaxItems
    /\ LET fb == QueueForReviewOn(FbState, item, fbNow, io)
       IN  /\ SetFb(fb)
           /\ fbLast' = [op |-> "queueForReview",
                         id |-> fb.pending[Len(fb.pending)].id,
                         uid |-> fb.next, threw |-> io = "itemFile",
                         success |-> io # "itemFile"]
    /\ Fault(IF io = "ok" THEN 0 ELSE 1)
    /\ UNCHANGED fbNow

\* submitReview, and approve / reject, which delegate to it
ReviewCall(op, id, review, io) ==
    /\ io = "unlink" => <<"pending", id>> \in itemFiles
    /\ LET index == FindIndex(pending, id)
           fb == SubmitReviewOn(FbState, id, review, fbNow, io)
       IN  /\ SetFb(fb)
           /\ fbLast' = [op |-> op, id |-> id,
                         uid |-> IF index = 0 THEN 0 ELSE pending[index].uid,
                         threw |-> SubmitReviewThrows(FbState, id, io),
                         success |-> /\ ~SubmitReviewThrows(FbState, id, io)
                                     /\ SubmitReviewResult(FbState, id).success]
    /\ io # "ok" => FindIndex(pending, id) # 0
    /\ Fault(IF io = "ok" THEN 0 ELSE 1)
    /\ UNCHANGED fbNow

SubmitReview(id, review, io) == ReviewCall("submitReview", id, review, io)
Approve(id, comments, io) == ReviewCall("submitReview", id, ApproveReview(comments), io)
Reject(id, reason, io) == ReviewCall("submitReview", id, RejectReview(reason), io)

AutoQueue(items, threshold, ios) ==
    /\ nextUuid + Len(items) <= MaxItems
    /\ LET r == AutoQueueOn(FbState, items, threshold, fbNow, ios, 1)
       IN  /\ SetFb(r.fb)
           /\ fbLast' = [op |-> "autoQueue", id |-> NULL, uid |-> 0,
                         threw |-> r.threw, success |-> ~r.threw,
                         items |-> items, threshold |-> threshold]
           /\ Fault(r.faults)
    /\ UNCHANGED fbNow

ArchiveOldItems(daysOld, failWrite, io) ==
    /\ io \in {"ok", "save1", "save2", "save3"}
    /\ LET fb == ArchiveOldItemsOn(FbState, daysOld, fbNow, failWrite, io)
       IN  /\ SetFb(fb)
           /\ fbLast' = [op |-> "archiveOldItems", id |-> NULL, uid |-> 0,
                         threw |-> failWrite # 0, success |-> failWrite = 0]
    /\ failWrite # 0 => io = "ok"
    /\ Fault(IF failWrite # 0 \/ io # "ok" THEN 1 ELSE 0)
    /\ UNCHANGED fbNow

\* time passes between calls
\* learnFromApproved(): with no approved item the early return reads the
\* `const insights` declared further down in the same function, which is in
\* its temporal dead zone: a ReferenceError.  Otherwise the insights; a
\* quotient is kept as its numerator and its denominator.
RECURSIVE RatingSum(_)
RatingSum(list) ==
    IF list = <<>> THEN 0
    ELSE (IF Head(list).rating = 0 THEN 3 ELSE Head(list).rating)
         + RatingSum(Tail(list))

NoInsights ==
    [approvedCount |-> 0, rejectedCount |-> 0,
     approvalRate |-> <<0, 0>>, avgRating |-> <<0, 0>>]

LearnFromApprovedOn(app, rej) ==
    IF Len(app) = 0
    THEN [threw |-> TRUE, insights |-> NoInsights]
    ELSE [threw |-> FALSE,
          insights |-> [approvedCount |-> Len(app),
                        rejectedCount |-> Len(rej),
                        approvalRate |-> <<Len(app), Len(app) + Len(rej)>>,
                        avgRating |-> <<RatingSum(app), Len(app)>>]]

LearnFromApproved ==
    /\ LET r == LearnFromApprovedOn(approved, rejected)
       IN  fbLast' = [op |-> "learnFromApproved", id |-> NULL, uid |-> 0,
                      threw |-> r.threw, success |-> ~r.threw,
                      insights |-> r.insights]
    /\ UNCHANGED <<pending, approved, rejected, diskPending, diskApproved,
                   diskRejected, itemFiles, nextUuid, fbNow, faults>>

FbTick ==
    /\ fbNow < MaxTime
    /\ fbNow' = fbNow + 1
    /\ fbLast' = [op |-> "tick", id |-> NULL, uid |-> 0, threw |-> FALSE,
                  success |-> TRUE]
    /\ UNCHANGED <<pending, approved, rejected, diskPending, diskApproved,
                   diskRejected, itemFiles, nextUuid, faults>>

\* ------------------------------------------------- SelfModificationSystem
\* Texts are sequences of one-character strings.
ToLowerChar(c) ==
    CASE c = "A" -> "a" [] c = "B" -> "b" [] c = "I" -> "i" [] c = "K" -> "k"
      [] c = "M" -> "m" [] c = "P" -> "p" [] c = "S" -> "s" [] c = "T" -> "t"
      [] c = "O" -> "o" [] c = "R" -> "r" [] c = "G" -> "g" [] c = "L" -> "l"
      [] OTHER -> c
ToLowerCase(text) == [k \in 1..Len(text) |-> ToLowerChar(text[k])]

\* String.prototype.includes
Includes(text, word) ==
    \E k \in 0..(Len(text) - Len(word)) :
        \A j \in 1..Len(word) : text[k + j] = word[j]

\* a failure without an error text
Undefined == <<"undefined">>

\* categorizeFailure that looks for "api" and "key" before "timeout"
CategorizeFailureApiFirst(error) ==
    LET e == IF error = Undefined THEN <<>> ELSE ToLowerCase(error)
    IN  IF Includes(e, <<"a", "p", "i">>) \/ Includes(e, <<"k", "e", "y">>)
             THEN "api_error"
        ELSE IF Includes(e, <<"t", "i", "m", "e", "o", "u", "t">>) THEN "timeout"
        ELSE IF Includes(e, <<"s", "y", "n", "t", "a", "x">>) THEN "syntax_error"
        ELSE IF Includes(e, <<"i", "m", "p", "o", "r", "t">>) THEN "import_error"
        ELSE IF Includes(e, <<"m", "e", "m", "o", "r", "y">>) THEN "resource_error"
        ELSE IF Includes(e, <<"b", "r", "o", "w", "s", "e", "r">>)
             THEN "browser_error"
        ELSE "unknown"

\* categorizeFailure: the first keyword found in the lower-cased error text;
\* `failure.error?.toLowerCase() || ''` is the empty text without an error
CategorizeFailure(error) ==
    LET e == IF error = Undefined THEN <<>> ELSE ToLowerCase(error)
    IN  IF Includes(e, <<"t", "i", "m", "e", "o", "u", "t">>) THEN "timeout"
        ELSE IF Includes(e, <<"s", "y", "n", "t", "a", "x">>) THEN "syntax_error"
        ELSE IF Includes(e, <<"i", "m", "p", "o", "r", "t">>) THEN "import_error"
        ELSE IF Includes(e, <<"a", "p", "i">>) \/ Includes(e, <<"k", "e", "y">>)
             THEN "api_error"
        ELSE IF Includes(e, <<"m", "e", "m", "o", "r", "y">>) THEN "resource_error"
        ELSE IF Includes(e, <<"b", "r", "o", "w", "s", "e", "r">>)
             THEN "browser_error"
        ELSE "unknown"

\* canSelfModify with every category in the list of fixable ones
CanSelfModifyAnything(error) ==
    CategorizeFailure(error) \in
        {"timeout", "syntax_error", "import_error", "browser_error",
         "api_error", "resource_error", "unknown"}

\* canSelfModify with api_error listed in the place of browser_error
CanSelfModifyApi(error) ==
    CategorizeFailure(error) \in
        {"timeout", "syntax_error", "import_error", "api_error"}

\* canSelfModify
CanSelfModify(error) ==
    CategorizeFailure(error) \in
        {"timeout", "syntax_error", "import_error", "browser_error"}

\* the files createBackup copies, in its order
FilesToBackup == <<"index.js", "package.json", "agents/index.js", "lib/memory.js">>
\* a file that lies in a subdirectory of the project
Nested(file) == file \in {"agents/index.js", "lib/memory.js"}
\* the files a proposed change may name
TargetFiles == {"index.js", "package.json", "agents/index.js", "lib/memory.js",
                "lib/missing.js"}
Exists(files, f) == f \in DOMAIN files /\ files[f] # -1

RECURSIVE SortedDesc(_)
\* readdirSync(...).sort().reverse(): backup_<ISO timestamp> names sort as
\* their timestamps do
SortedDesc(S) ==
    IF S = {} THEN <<>>
    ELSE LET m == CHOOSE x \in S : \A y \in S : y <= x
         IN  <<m>> \o SortedDesc(S \ {m})

\* Array.prototype.slice(n)
SliceFrom(s, n) == [k \in 1..(IF Len(s) > n THEN Len(s) - n ELSE 0) |-> s[k + n]]

\* cleanOldBackups: removes dirs.slice(maxBackups) of the newest-first list
CleanOldBackups(bk, cap) ==
    LET dirs == SortedDesc(DOMAIN bk)
        gone == IF Len(dirs) > cap THEN Range(SliceFrom(dirs, cap)) ELSE {}
    IN  [t \in (DOMAIN bk) \ gone |-> bk[t]]

\* the copy loop of createBackup over FilesToBackup from position k on:
\* copyFileSync into backup_<ts>/agents/ or backup_<ts>/lib/, which mkdirSync
\* did not create, throws ENOENT
RECURSIVE CopyFiles(_, _, _)
CopyFiles(files, snap, k) ==
    IF k > Len(FilesToBackup) THEN [snap |-> snap, threw |-> FALSE]
    ELSE LET f == FilesToBackup[k]
         IN  IF ~Exists(files, f) THEN CopyFiles(files, snap, k + 1)
             ELSE IF Nested(f) THEN [snap |-> snap, threw |-> TRUE]
             ELSE CopyFiles(files, [snap EXCEPT ![f] = files[f]], k + 1)

EmptySnapshot == [k \in Range(FilesToBackup) |-> -1]

\* createBackup(): the backup directories it leaves and whether it throws.
\* bio = "mkdir": mkdirSync throws.  A second call within the same
\* millisecond writes into the same directory.
CreateBackupOn(files, bk, cap, now, bio) ==
    IF bio = "mkdir" THEN [backups |-> bk, threw |-> TRUE]
    ELSE LET old == IF now \in DOMAIN bk THEN bk[now] ELSE EmptySnapshot
             c == CopyFiles(files, old, 1)
             bk2 == [t \in (DOMAIN bk) \cup {now} |->
                        IF t = now THEN c.snap ELSE bk[t]]
         IN  IF c.threw THEN [backups |-> bk2, threw |-> TRUE]
             ELSE [backups |-> CleanOldBackups(bk2, cap), threw |-> FALSE]

\* applyChange(content, change): the new content, -1 for undefined.  The
\* default branch is `return` followed by a comment: it returns undefined.
ApplyChange(content, change) ==
    CASE change = "increase timeout" -> content + 1
      [] change = "add error handling" -> content + 1
      [] OTHER -> -1

\* the loop of applyModifications that ends at the first change that fails
RECURSIVE ApplyLoopUntilFailure(_, _, _, _, _)
ApplyLoopUntilFailure(st, mods, k, wfail, now) ==
    IF k > Len(mods) THEN st
    ELSE LET mod == mods[k]
         IN  IF ~Exists(st.files, mod.file)
             THEN [st EXCEPT !.results = Append(@, [file |-> mod.file,
                                                    success |-> FALSE,
                                                    error |-> "File not found"]),
                             !.events = Append(@, "notfound")]
             ELSE LET modified == ApplyChange(st.files[mod.file], mod.change)
                  IN  IF k \in wfail \/ modified = -1
                      THEN [st EXCEPT !.results = Append(@, [file |-> mod.file,
                                                             success |-> FALSE,
                                                             error |-> "error.message"]),
                                      !.events = Append(@, "failed")]
                      ELSE ApplyLoopUntilFailure(
                             [st EXCEPT !.files[mod.file] = modified,
                                        !.results = Append(@, [file |-> mod.file,
                                                               success |-> TRUE,
                                                               error |-> NULL]),
                                        !.log = Append(@, [kind |-> "change",
                                                           file |-> mod.file,
                                                           change |-> mod.change,
                                                           reason |-> mod.reason]),
                                        !.events = @ \o <<"write", "log">>],
                             mods, k + 1, wfail, now)

\* the loop of applyModifications over mods from position k on.  wfail: the
\* positions whose readFileSync / writeFileSync throws; writeFileSync of
\* undefined throws too.  Every throw is caught per change.
RECURSIVE ApplyLoop(_, _, _, _, _)
ApplyLoop(st, mods, k, wfail, now) ==
    IF k > Len(mods) THEN st
    ELSE LET mod == mods[k]
         IN  IF ~Exists(st.files, mod.file)
             THEN ApplyLoop([st EXCEPT !.results = Append(@, [file |-> mod.file,
                                                            success |-> FALSE,
                                                            error |-> "File not found"]),
                                       !.events = Append(@, "notfound")],
                            mods, k + 1, wfail, now)
             ELSE LET modified == ApplyChange(st.files[mod.file], mod.change)
                  IN  IF k \in wfail \/ modified = -1
                      THEN ApplyLoop([st EXCEPT !.results = Append(@, [file |-> mod.file,
                                                                 success |-> FALSE,
                                                                 error |-> "error.message"]),
                                                !.events = Append(@, "failed")],
                                     mods, k + 1, wfail, now)
                      ELSE ApplyLoop(
                             [st EXCEPT !.files[mod.file] = modified,
                                        !.results = Append(@, [file |-> mod.file,
                                                               success |-> TRUE,
                                                               error |-> NULL]),
                                        !.log = Append(@, [kind |-> "change",
                                                           file |-> mod.file,
                                                           change |-> mod.change,
                                                           reason |-> mod.reason]),
                                        !.events = @ \o <<"write", "log">>],
                             mods, k + 1, wfail, now)

\* applyModifications that goes on to apply the changes when createBackup throws
ApplyModificationsIgnoringBackup(files, bk, log, cap, mods, now, bio, wfail) ==
    IF Len(mods) = 0
    THEN [files |-> files, backups |-> bk, log |-> log, results |-> <<>>,
          events |-> <<>>, threw |-> FALSE, returned |-> "undefined"]
    ELSE LET b == CreateBackupOn(files, bk, cap, now, bio)
             st == ApplyLoop([files |-> files, backups |-> b.backups, log |-> log,
                              results |-> <<>>,
                              events |-> IF b.threw THEN <<"backup_failed">>
                                         ELSE <<"backup">>,
                              threw |-> FALSE, returned |-> "results"],
                             mods, 1, wfail, now)
         IN  st

\* applyModifications(modifications): createBackup() is called once, before
\* the loop and outside any try
ApplyModificationsOn(files, bk, log, cap, mods, now, bio, wfail) ==
    IF Len(mods) = 0
    THEN [files |-> files, backups |-> bk, log |-> log, results |-> <<>>,
          events |-> <<>>, threw |-> FALSE, returned |-> "undefined"]
    ELSE LET b == CreateBackupOn(files, bk, cap, now, bio)
         IN  IF b.threw
             THEN [files |-> files, backups |-> b.backups, log |-> log,
                   results |-> <<>>, events |-> <<"backup_failed">>,
                   threw |-> TRUE, returned |-> "threw"]
             ELSE ApplyLoop([files |-> files, backups |-> b.backups, log |-> log,
                             results |-> <<>>, events |-> <<"backup">>,
                             threw |-> FALSE, returned |-> "results"],
                            mods, 1, wfail, now)

\* testModifications(): reads index.js and parses it; every throw is caught.
\* parses: whether `new Function(content)` accepts the content.
TestModificationsOn(files, parses) == Exists(files, "index.js") /\ parses

\* generateModifications: what JSON.parse makes of the answer of the language
\* model, be it a list (llm = "ok") or the value null (llm = "null"); [] when
\* there is no model (llm = "none") or the call or JSON.parse throws ("fails")
GenerateModifications(llm, proposal) ==
    [isNull |-> llm = "null", changes |-> IF llm = "ok" THEN proposal ELSE <<>>]

\* improve that puts the files back as they were when the test fails
ImproveOnAutoRevert(files, bk, log, cap, error, llm, proposal, now, bio, wfail, parses) ==
    IF ~CanSelfModify(error)
    THEN [files |-> files, backups |-> bk, log |-> log, threw |-> FALSE,
          improved |-> FALSE, reason |-> "cannot_self_modify",
          events |-> <<"analyze">>, mods |-> <<>>, results |-> <<>>]
    ELSE
    LET gen == GenerateModifications(llm, proposal)
        mods == gen.changes
        r == ApplyModificationsOn(files, bk, log, cap, mods, now, bio, wfail)
        ok == TestModificationsOn(r.files, parses)
    IN  IF gen.isNull
        THEN [files |-> files, backups |-> bk, log |-> log, threw |-> TRUE,
              improved |-> FALSE, reason |-> NULL,
              events |-> <<"analyze", "propose">>, mods |-> <<>>,
              results |-> <<>>]
        ELSE IF r.threw
        THEN [files |-> r.files, backups |-> r.backups, log |-> r.log,
              threw |-> TRUE, improved |-> FALSE, reason |-> NULL,
              events |-> <<"analyze", "propose">> \o r.events,
              mods |-> mods, results |-> <<>>]
        ELSE [files |-> IF ok THEN r.files ELSE files, backups |-> r.backups,
              log |-> Append(r.log, [kind |-> "improvement", improved |-> ok,
                                     changes |-> Len(mods),
                                     backedUp |-> "backup" \in Range(r.events)]),
              threw |-> FALSE, improved |-> ok, reason |-> NULL,
              events |-> <<"analyze", "propose">> \o r.events \o <<"test", "record">>,
              mods |-> mods, results |-> r.results]

\* improve(failure): analyze, stop if the failure is not self-modifiable,
\* else propose (inside analyzeFailure), apply, test and record.  With null
\* for the suggested changes, `analysis.suggestedChanges.length` throws.
ImproveOn(files, bk, log, cap, error, llm, proposal, now, bio, wfail, parses) ==
    IF ~CanSelfModify(error)
    THEN [files |-> files, backups |-> bk, log |-> log, threw |-> FALSE,
          improved |-> FALSE, reason |-> "cannot_self_modify",
          events |-> <<"analyze">>, mods |-> <<>>, results |-> <<>>]
    ELSE
    LET gen == GenerateModifications(llm, proposal)
        mods == gen.changes
        r == ApplyModificationsOn(files, bk, log, cap, mods, now, bio, wfail)
        ok == TestModificationsOn(r.files, parses)
    IN  IF gen.isNull
        THEN [files |-> files, backups |-> bk, log |-> log, threw |-> TRUE,
              improved |-> FALSE, reason |-> NULL,
              events |-> <<"analyze", "propose">>, mods |-> <<>>,
              results |-> <<>>]
        ELSE IF r.threw
        THEN [files |-> r.files, backups |-> r.backups, log |-> r.log,
              threw |-> TRUE, improved |-> FALSE, reason |-> NULL,
              events |-> <<"analyze", "propose">> \o r.events,
              mods |-> mods, results |-> <<>>]
        ELSE [files |-> r.files, backups |-> r.backups,
              log |-> Append(r.log, [kind |-> "improvement", improved |-> ok,
                                     changes |-> Len(mods),
                                     backedUp |-> "backup" \in Range(r.events)]),
              threw |-> FALSE, improved |-> ok, reason |-> NULL,
              events |-> <<"analyze", "propose">> \o r.events \o <<"test", "record">>,
              mods |-> mods, results |-> r.results]

\* ---- inputs of the self-modification system's callers
TextTimeout == <<"T", "i", "m", "e", "o", "u", "t">>
TextApiKey == <<"A", "P", "I", " ", "k", "e", "y">>
TasksFailedTextTimeout(n) ==
    <<<<"0">>, <<"1">>, <<"2">>, <<"3">>, <<"4">>, <<"5">>>>[n + 1]
    \o <<" ", "t", "a", "s", "k", "s", ":", " ", "t", "i", "m", "e", "o", "u", "t">>

\* the template literal `${tasksFailed} tasks failed` of runReflection
TasksFailedText(n) ==
    <<<<"0">>, <<"1">>, <<"2">>, <<"3">>, <<"4">>, <<"5">>>>[n + 1]
    \o <<" ", "t", "a", "s", "k", "s", " ", "f", "a", "i", "l", "e", "d">>
FailureTexts == {TextTimeout, TextApiKey, TasksFailedText(1)}

Proposals ==
    {<<>>,
     <<[file |-> "index.js", change |-> "increase timeout", reason |-> "slow"]>>,
     <<[file |-> "lib/missing.js", change |-> "increase timeout",
        reason |-> "slow"],
       [file |-> "package.json", change |-> "add error handling",
        reason |-> "throws"]>>,
     <<[file |-> "index.js", change |-> "refactor", reason |-> "style"]>>}

BackupIo == {"ok", "mkdir"}

\* the language model: none, one whose call fails or whose answer is not
\* JSON, one that answers a list of changes, one that answers the JSON value
\* null
LlmAnswers == {"none", "fails", "ok", "null"}

\* ---- actions of the self-modification system
\* a createBackup call, if one was made, goes into the history
NoteBackup(called, wrote) ==
    /\ backupCalls' = IF called THEN Append(backupCalls, smNow) ELSE backupCalls
    /\ filesAtBackup' =
          IF called /\ wrote
          THEN [t \in (DOMAIN filesAtBackup) \cup {smNow} |->
                   IF t = smNow THEN projFiles ELSE filesAtBackup[t]]
          ELSE filesAtBackup

CreateBackup(bio) ==
    /\ Len(backupCalls) < MaxBackupCalls
    /\ LET b == CreateBackupOn(projFiles, backups, maxBackups, smNow, bio)
       IN  /\ backups' = b.backups
           /\ smLast' = [op |-> "createBackup", threw |-> b.threw,
                         improved |-> FALSE, reason |-> NULL, error |-> <<>>,
                         events |-> IF b.threw THEN <<"backup_failed">>
                                    ELSE <<"backup">>,
                         mods |-> <<>>, results |-> <<>>, parses |-> FALSE, backup |-> -1]
    /\ NoteBackup(TRUE, bio = "ok")
    /\ Fault(IF bio = "ok" THEN 0 ELSE 1)
    /\ UNCHANGED <<projFiles, modificationLog, maxBackups, smNow>>

ApplyModifications(mods, bio, wfail) ==
    /\ Len(modificationLog) + Len(mods) <= MaxLog
    /\ Len(mods) > 0 => Len(backupCalls) < MaxBackupCalls
    /\ Len(mods) = 0 => bio = "ok"
    /\ faults + (IF bio = "ok" THEN 0 ELSE 1) + Cardinality(wfail) <= MaxFaults
    /\ LET r == ApplyModificationsOn(projFiles, backups, modificationLog,
                                     maxBackups, mods, smNow, bio, wfail)
       IN  /\ projFiles' = r.files
           /\ backups' = r.backups
           /\ modificationLog' = r.log
           /\ smLast' = [op |-> "applyModifications", threw |-> r.threw,
                         improved |-> FALSE, reason |-> NULL, error |-> <<>>,
                         events |-> r.events, mods |-> mods,
                         results |-> r.results, parses |-> FALSE, backup |-> -1]
    /\ NoteBackup(Len(mods) > 0, bio = "ok")
    /\ Fault((IF bio = "ok" THEN 0 ELSE 1) + Cardinality(wfail))
    /\ UNCHANGED <<maxBackups, smNow>>

Improve(error, llm, proposal, bio, wfail, parses) ==
    LET mods == GenerateModifications(llm, proposal).changes
        calls == CanSelfModify(error) /\ Len(mods) > 0
    IN  /\ Len(modificationLog) + Len(mods) + 1 <= MaxLog
        /\ faults + (IF bio = "ok" THEN 0 ELSE 1) + Cardinality(wfail) <= MaxFaults
        /\ calls => Len(backupCalls) < MaxBackupCalls
        /\ ~calls => bio = "ok" /\ wfail = {}
        /\ \E r \in {ImproveOn(projFiles, backups, modificationLog, maxBackups,
                              error, llm, proposal, smNow, bio, wfail, parses)} :
               /\ projFiles' = r.files
               /\ backups' = r.backups
               /\ modificationLog' = r.log
               /\ smLast' = [op |-> "improve", threw |-> r.threw,
                             improved |-> r.improved, reason |-> r.reason,
                             error |-> error, events |-> r.events,
                             mods |-> r.mods, results |-> r.results,
                             parses |-> parses, backup |-> -1]
        /\ NoteBackup("backup" \in Range(smLast'.events)
                      \/ "backup_failed" \in Range(smLast'.events),
                      bio = "ok")
        /\ Fault((IF bio = "ok" THEN 0 ELSE 1) + Cardinality(wfail))
        /\ UNCHANGED <<maxBackups, smNow>>

SmTick ==
    /\ smNow < MaxSmTime
    /\ smNow' = smNow + 1
    /\ UNCHANGED <<projFiles, backups, modificationLog, maxBackups, backupCalls,
                   filesAtBackup, smLast, faults>>

\* the state after `new SelfModificationSystem({maxBackups})` in a project
\* with or without its agents/ and lib/ files, and no backup yet
SmInit ==
    /\ \E nested \in BOOLEAN :
          projFiles = [f \in TargetFiles |->
                          IF f \in {"index.js", "package.json"} THEN 0
                          ELSE IF Nested(f) /\ nested THEN 0 ELSE -1]
    /\ backups = [t \in {} |-> EmptySnapshot]
    /\ modificationLog = <<>>
    /\ maxBackups \in 1..MaxCap
    /\ smNow = 0
    /\ backupCalls = <<>>
    /\ filesAtBackup = [t \in {} |-> 0]
    /\ smLast = [op |-> "init", threw |-> FALSE, improved |-> FALSE,
                 reason |-> NULL, error |-> <<>>, events |-> <<>>,
                 mods |-> <<>>, results |-> <<>>, parses |-> FALSE, backup |-> -1]

SmNext ==
    \/ \E bio \in BackupIo : CreateBackup(bio) /\ UNCHANGED notSm
    \/ \E mods \in Proposals :
          \E bio \in BackupIo, wfail \in SUBSET (1..Len(mods)) :
             ApplyModifications(mods, bio, wfail) /\ UNCHANGED notSm
    \/ \E error \in FailureTexts, llm \in LlmAnswers :
          \E proposal \in IF llm = "ok" THEN Proposals ELSE {<<>>} :
             \E bio \in BackupIo, wfail \in SUBSET (1..Len(proposal)),
                parses \in BOOLEAN :
                Improve(error, llm, proposal, bio, wfail, parses)
                /\ UNCHANGED notSm
    \/ SmTick /\ UNCHANGED notSm

\* ---- createBackup, edits of the project files and revertToBackup alone
\* readdirSync of a backup directory: its entries in name order, each named
\* here by the file of FilesToBackup it holds
BackupEntries == <<"agents/index.js", "index.js", "lib/memory.js", "package.json">>

\* the copy loop of revertToBackup over BackupEntries from position k on:
\* copyFileSync of the entry agents or lib, a directory, throws
RECURSIVE CopyBack(_, _, _)
CopyBack(files, snap, k) ==
    IF k > Len(BackupEntries) THEN [files |-> files, threw |-> FALSE]
    ELSE LET f == BackupEntries[k]
         IN  IF snap[f] = -1 THEN CopyBack(files, snap, k + 1)
             ELSE IF Nested(f) THEN [files |-> files, threw |-> TRUE]
             ELSE CopyBack([files EXCEPT ![f] = snap[f]], snap, k + 1)

\* revertToBackup(backupDir)
RevertToBackupOn(files, bk, name) ==
    IF name \notin DOMAIN bk
    THEN [files |-> files, threw |-> FALSE, success |-> FALSE]
    ELSE LET c == CopyBack(files, bk[name], 1)
         IN  [files |-> c.files, threw |-> c.threw, success |-> ~c.threw]

RevertToBackup(name) ==
    /\ LET r == RevertToBackupOn(projFiles, backups, name)
       IN  /\ projFiles' = r.files
           /\ smLast' = [op |-> "revertToBackup", threw |-> r.threw,
                         improved |-> r.success,
                         reason |-> IF r.success \/ r.threw THEN NULL
                                    ELSE "Backup not found",
                         error |-> <<>>, events |-> <<>>, mods |-> <<>>,
                         results |-> <<>>, parses |-> FALSE, backup |-> name]
    /\ UNCHANGED <<backups, modificationLog, maxBackups, smNow, backupCalls,
                   filesAtBackup, faults>>

\* somebody edits the project file f
EditFile(f) ==
    /\ Exists(projFiles, f)
    /\ projFiles[f] < MaxEdits
    /\ projFiles' = [projFiles EXCEPT ![f] = @ + 1]
    /\ smLast' = [op |-> "edit", threw |-> FALSE, improved |-> FALSE,
                  reason |-> NULL, error |-> <<>>, events |-> <<>>,
                  mods |-> <<>>, results |-> <<>>, parses |-> FALSE, backup |-> -1]
    /\ UNCHANGED <<backups, modificationLog, maxBackups, smNow, backupCalls,
                   filesAtBackup, faults>>

\* the name of no backup
NoBackup == 0 - 1

RevertNext ==
    \/ \E bio \in BackupIo : CreateBackup(bio) /\ UNCHANGED notSm
    \/ \E f \in Range(FilesToBackup) : EditFile(f) /\ UNCHANGED notSm
    \/ \E name \in (DOMAIN backups) \cup {NoBackup} :
          RevertToBackup(name) /\ UNCHANGED notSm
    \/ SmTick /\ UNCHANGED notSm

\* ---- categorizeFailure and canSelfModify alone
\* the words error texts are made of: one for each keyword, in mixed case,
\* and one that holds no keyword
ErrorWords ==
    <<[text |-> <<"T", "i", "m", "e", "o", "u", "t">>, category |-> "timeout"],
      [text |-> <<"S", "y", "n", "t", "a", "x">>, category |-> "syntax_error"],
      [text |-> <<"I", "M", "P", "O", "R", "T">>, category |-> "import_error"],
      [text |-> <<"a", "p", "i">>, category |-> "api_error"],
      [text |-> <<"K", "e", "y">>, category |-> "api_error"],
      [text |-> <<"m", "e", "m", "o", "r", "y">>, category |-> "resource_error"],
      [text |-> <<"B", "r", "o", "w", "s", "e", "r">>, category |-> "browser_error"],
      [text |-> <<"t", "i", "m", "e", " ", "o", "u", "t", " ">>,
       category |-> "unknown"]>>

WordSeqs == UNION {[1..n -> 1..Len(ErrorWords)] : n \in 0..MaxWords}

RECURSIVE TextOf(_)
\* the error text made of the words ws
TextOf(ws) ==
    IF Len(ws) = 0 THEN <<>> ELSE ErrorWords[Head(ws)].text \o TextOf(Tail(ws))

ErrorTexts == {TextOf(ws) : ws \in WordSeqs} \cup {Undefined}

CategorizeFailureCall(error) ==
    /\ smLast' = [op |-> "categorizeFailure", threw |-> FALSE,
                  improved |-> FALSE, reason |-> CategorizeFailure(error),
                  error |-> error, events |-> <<>>,
                  mods |-> <<>>, results |-> <<>>, parses |-> FALSE, backup |-> -1]
    /\ UNCHANGED <<projFiles, backups, modificationLog, maxBackups, smNow,
                   backupCalls, filesAtBackup, faults>>

CanSelfModifyCall(error) ==
    /\ smLast' = [op |-> "canSelfModify", threw |-> FALSE,
                  improved |-> CanSelfModify(error), reason |-> NULL,
                  error |-> error, events |-> <<>>,
                  mods |-> <<>>, results |-> <<>>, parses |-> FALSE, backup |-> -1]
    /\ UNCHANGED <<projFiles, backups, modificationLog, maxBackups, smNow,
                   backupCalls, filesAtBackup, faults>>

CatNext ==
    \/ \E error \in ErrorTexts : CategorizeFailureCall(error) /\ UNCHANGED notSm
    \/ \E error \in ErrorTexts : CanSelfModifyCall(error) /\ UNCHANGED notSm

\* ------------------------------------------------- MagnitudeSelfImprover
\* TaskGenerator.generateTasks(count) with `gaps` knowledge gaps found: the
\* gap tasks first, then up to three exploratory ones until there are `count`
GenerateTasks(count, gaps) ==
    LET g == IF gaps < count THEN gaps ELSE count
        e == IF count - g < 3 THEN count - g ELSE 3
    IN  [k \in 1..(g + e) |-> IF k <= g THEN "knowledge gap" ELSE "exploration"]

\* the signs Math.random() - 0.5 can have, and the outcomes of the comparator
\* calls of one sort that reach Math.random(), in call order
Signs == {-1, 0, 1}
Coins == [1..(2 * (MaxTasks - 1)) -> Signs]

CompareTasksGapsLast(a, b, coins, used) ==
    IF a = "knowledge gap" /\ b # "knowledge gap" THEN 1
    ELSE IF b = "knowledge gap" /\ a # "knowledge gap" THEN -1
    ELSE coins[used + 1]

\* the comparator of prioritizeTasks, after `used` calls of Math.random()
CompareTasks(a, b, coins, used) ==
    IF a = "knowledge gap" /\ b # "knowledge gap" THEN -1
    ELSE IF b = "knowledge gap" /\ a # "knowledge gap" THEN 1
    ELSE coins[used + 1]

\* whether the comparator reaches Math.random() for a and b
ComparesAtRandom(a, b) == (a = "knowledge gap") = (b = "knowledge gap")

\* Array.prototype.sort for a short array: binary insertion.  The place
\* (0-based) where `pivot` goes into the sorted prefix `arr`
RECURSIVE InsertPos(_, _, _, _, _, _)
InsertPos(arr, pivot, left, right, coins, used) ==
    IF left >= right THEN [pos |-> left, used |-> used]
    ELSE LET mid == left + (right - left) \div 2
             order == CompareTasks(pivot, arr[mid + 1], coins, used)
             used2 == used + (IF ComparesAtRandom(pivot, arr[mid + 1]) THEN 1 ELSE 0)
         IN  IF order < 0 THEN InsertPos(arr, pivot, left, mid, coins, used2)
             ELSE InsertPos(arr, pivot, mid + 1, right, coins, used2)

RECURSIVE SortFrom(_, _, _, _)
SortFrom(arr, i, coins, used) ==
    IF i > Len(arr) THEN arr
    ELSE LET r == InsertPos(arr, arr[i], 0, i - 1, coins, used)
             moved == SubSeq(arr, 1, r.pos) \o <<arr[i]>>
                      \o SubSeq(arr, r.pos + 1, i - 1)
                      \o SubSeq(arr, i + 1, Len(arr))
         IN  SortFrom(moved, i + 1, coins, r.used)

\* TaskGenerator.prioritizeTasks(tasks): tasks.sort(comparator)
PrioritizeTasks(tasks, coins) == SortFrom(tasks, 2, coins, 0)

\* the confidence below which executeTask queues a result, in percent
ConfidenceThreshold == 70

\* executeTask(task) inside the try of runSession's loop: the metrics it
\* leaves.  fail: the awaited step that throws.  tasksCompleted is
\* incremented right after research(), before verify()
ExecuteTaskMetrics(m, fail, passed) ==
    [completed |-> m.completed + (IF fail = "research" THEN 0 ELSE 1),
     failed |-> m.failed + (IF fail = "none" THEN 0 ELSE 1),
     verified |-> m.verified
                  + (IF fail \notin {"research", "verify"} /\ passed THEN 1 ELSE 0)]

QueuesForReviewAtThreshold(fail, score) ==
    fail \in {"none", "queue"} /\ score <= ConfidenceThreshold

\* whether executeTask reaches its queueForReview call
QueuesForReview(fail, score) ==
    fail \in {"none", "queue"} /\ score < ConfidenceThreshold

RecordSessionCountingAll(sessions, total, completed, failed, verified) ==
    [sessions |-> Append(sessions, [tasksCompleted |-> completed,
                                     tasksFailed |-> failed,
                                     verificationsPassed |-> verified]),
     totalTasks |-> total + 1]

\* recordSession(sessionData): the metrics file it leaves; -1 is a
\* tasksCompleted that sessionData does not have (`|| 0`)
RecordSession(sessions, total, completed, failed, verified) ==
    [sessions |-> Append(sessions, [tasksCompleted |-> completed,
                                     tasksFailed |-> failed,
                                     verificationsPassed |-> verified]),
     totalTasks |-> total + (IF completed = -1 THEN 0 ELSE completed)]

\* ---- steps of runSession, one per awaited call
SessUnchangedFb ==
    UNCHANGED <<pending, approved, rejected, diskPending, diskApproved,
                diskRejected, itemFiles, nextUuid, fbNow, fbLast>>
SessUnchangedSm ==
    UNCHANGED <<projFiles, backups, modificationLog, maxBackups, smNow,
                backupCalls, filesAtBackup, smLast>>

\* generateTasks + prioritizeTasks
SessGenerate(count, gaps, coins) ==
    /\ sessPc = "new"
    /\ sessTasks' = PrioritizeTasks(GenerateTasks(count, gaps), coins)
    /\ sessPc' = "tasks"
    /\ UNCHANGED <<taskIdx, tasksCompleted, tasksFailed, verificationsPassed,
                   taskOutcomes, taskScores, synthCalls, topTags, improveCalls, metricsSessions,
                   totalTasks, enableSelfModification, sessLog, faults>>
    /\ SessUnchangedFb /\ SessUnchangedSm

\* one iteration of `for (const task of tasks) try { executeTask } catch`
SessExecuteTask(fail, passed, score, io) ==
    /\ sessPc = "tasks"
    /\ taskIdx < Len(sessTasks)
    /\ fail = "queue" => score < ConfidenceThreshold
    /\ (fail = "queue") = (io = "itemFile")
    /\ ~QueuesForReview(fail, score) => io = "ok"
    /\ faults + (IF io = "ok" THEN 0 ELSE 1) <= MaxFaults
    /\ LET m == ExecuteTaskMetrics([completed |-> tasksCompleted,
                                    failed |-> tasksFailed,
                                    verified |-> verificationsPassed],
                                   fail, passed)
       IN  /\ tasksCompleted' = m.completed
           /\ tasksFailed' = m.failed
           /\ verificationsPassed' = m.verified
    /\ IF QueuesForReview(fail, score)
       THEN /\ nextUuid < MaxItems
            /\ LET fb == QueueForReviewOn(
                            FbState,
                            [id |-> NULL, status |-> NULL, confidence |-> score],
                            fbNow, io)
               IN  /\ SetFb(fb)
                   /\ fbLast' = [op |-> "queueForReview",
                                 id |-> fb.pending[Len(fb.pending)].id,
                                 uid |-> fb.next, threw |-> io = "itemFile",
                                 success |-> io # "itemFile"]
            /\ UNCHANGED fbNow
       ELSE SessUnchangedFb
    /\ Fault(IF io = "ok" THEN 0 ELSE 1)
    /\ taskIdx' = taskIdx + 1
    /\ taskOutcomes' = Append(taskOutcomes, fail)
    /\ taskScores' = Append(taskScores, IF fail \in {"none", "queue"}
                                        THEN score ELSE -1)
    /\ UNCHANGED <<sessPc, sessTasks, synthCalls, topTags, improveCalls, metricsSessions,
                   totalTasks, enableSelfModification, sessLog>>
    /\ SessUnchangedSm

\* the loop is over
SessTasksDone ==
    /\ sessPc = "tasks"
    /\ taskIdx = Len(sessTasks)
    /\ sessPc' = "synthesis"
    /\ sessLog' = Append(sessLog, "tasks")
    /\ UNCHANGED <<sessTasks, taskIdx, tasksCompleted, tasksFailed,
                   verificationsPassed, taskOutcomes, taskScores, synthCalls, topTags, improveCalls,
                   metricsSessions, totalTasks, enableSelfModification, faults>>
    /\ SessUnchangedFb /\ SessUnchangedSm

\* runSynthesis(): synthesize() for each of the first three of `tags` top
\* tags, awaited outside any try; throwAt = k > 0: the k-th call throws and
\* the error leaves runSession
SessSynthesis(tags, throwAt) ==
    /\ sessPc = "synthesis"
    /\ throwAt <= (IF tags < 3 THEN tags ELSE 3)
    /\ synthCalls' = IF throwAt = 0 THEN (IF tags < 3 THEN tags ELSE 3)
                     ELSE throwAt
    /\ topTags' = tags
    /\ sessPc' = IF throwAt = 0 THEN "reflection" ELSE "aborted"
    /\ sessLog' = Append(sessLog, IF throwAt = 0 THEN "synthesis"
                                  ELSE "synthesis threw")
    /\ UNCHANGED <<sessTasks, taskIdx, tasksCompleted, tasksFailed,
                   verificationsPassed, taskOutcomes, taskScores, improveCalls,
                   metricsSessions, totalTasks, enableSelfModification, faults>>
    /\ SessUnchangedFb /\ SessUnchangedSm

\* runReflection(): nothing when self-modification is disabled; else, in one
\* try, reflect() and then, if tasksFailed > 0, improve()
SessReflection(reflectThrows, llm, proposal, bio, wfail, parses) ==
    /\ sessPc = "reflection"
    /\ LET calls == /\ enableSelfModification /\ ~reflectThrows
                    /\ tasksFailed > 0
           error == TasksFailedText(tasksFailed)
       IN  IF calls
           THEN /\ Len(modificationLog) + Len(proposal) + 1 <= MaxLog
                /\ \E r \in {ImproveOn(projFiles, backups, modificationLog,
                                      maxBackups, error, llm, proposal, smNow,
                                      bio, wfail, parses)} :
                       /\ projFiles' = r.files
                       /\ backups' = r.backups
                       /\ modificationLog' = r.log
                       /\ smLast' = [op |-> "improve", threw |-> r.threw,
                                     improved |-> r.improved,
                                     reason |-> r.reason, error |-> error,
                                     events |-> r.events,
                                     mods |-> r.mods, results |-> r.results,
                                     parses |-> parses, backup |-> -1]
                /\ improveCalls' = Append(improveCalls, error)
                /\ NoteBackup("backup" \in Range(smLast'.events)
                              \/ "backup_failed" \in Range(smLast'.events),
                      bio = "ok")
                /\ UNCHANGED <<maxBackups, smNow>>
           ELSE /\ llm = "none" /\ proposal = <<>> /\ parses
                /\ enableSelfModification \/ ~reflectThrows
                /\ SessUnchangedSm
                /\ UNCHANGED improveCalls
    /\ bio = "ok" /\ wfail = {}
    /\ sessPc' = "record"
    /\ sessLog' = Append(sessLog,
                         IF enableSelfModification /\ reflectThrows
                         THEN "reflection threw" ELSE "reflection")
    /\ UNCHANGED <<sessTasks, taskIdx, tasksCompleted, tasksFailed,
                   verificationsPassed, taskOutcomes, taskScores, synthCalls, topTags,
                   metricsSessions, totalTasks, enableSelfModification, faults>>
    /\ SessUnchangedFb

\* this.memory.recordSession(this.sessionMetrics), outside any try
SessRecord(throws) ==
    /\ sessPc = "record"
    /\ IF throws
       THEN /\ sessPc' = "aborted"
            /\ sessLog' = Append(sessLog, "record threw")
            /\ UNCHANGED <<metricsSessions, totalTasks>>
       ELSE /\ LET r == RecordSession(metricsSessions, totalTasks, tasksCompleted,
                                      tasksFailed, verificationsPassed)
               IN  /\ metricsSessions' = r.sessions
                   /\ totalTasks' = r.totalTasks
            /\ sessPc' = "done"
            /\ sessLog' = Append(sessLog, "record")
    /\ UNCHANGED <<sessTasks, taskIdx, tasksCompleted, tasksFailed,
                   verificationsPassed, taskOutcomes, taskScores, synthCalls, topTags, improveCalls,
                   enableSelfModification, faults>>
    /\ SessUnchangedFb /\ SessUnchangedSm

\* a MagnitudeSelfImprover after its constructor
SessInit ==
    /\ sessPc = "new"
    /\ sessTasks = <<>>
    /\ taskIdx = 0
    /\ tasksCompleted = 0 /\ tasksFailed = 0 /\ verificationsPassed = 0
    /\ taskOutcomes = <<>> /\ taskScores = <<>>
    /\ synthCalls = 0 /\ topTags = 0
    /\ improveCalls = <<>>
    /\ metricsSessions = <<>>
    /\ totalTasks = 0
    /\ enableSelfModification \in BOOLEAN
    /\ sessLog = <<>>

\* no session object
SessIdle ==
    /\ sessPc = "none"
    /\ sessTasks = <<>>
    /\ taskIdx = 0
    /\ tasksCompleted = 0 /\ tasksFailed = 0 /\ verificationsPassed = 0
    /\ taskOutcomes = <<>> /\ taskScores = <<>>
    /\ synthCalls = 0 /\ topTags = 0
    /\ improveCalls = <<>>
    /\ metricsSessions = <<>>
    /\ totalTasks = 0
    /\ enableSelfModification = TRUE
    /\ sessLog = <<>>

SessNext ==
    \/ \E count \in 1..MaxTasks, gaps \in 0..2 :
          \E coins \in IF sessPc = "new" THEN Coins ELSE {} :
             SessGenerate(count, gaps, coins) /\ UNCHANGED notSess
    \/ \E fail \in {"none", "research", "verify", "score", "queue"},
          passed \in BOOLEAN, score \in {60, 70}, io \in QueueIo :
          SessExecuteTask(fail, passed, score, io) /\ UNCHANGED notSess
    \/ SessTasksDone /\ UNCHANGED notSess
    \/ \E tags \in 0..4, throwAt \in 0..3 : SessSynthesis(tags, throwAt) /\ UNCHANGED notSess
    \/ \E reflectThrows \in BOOLEAN, llm \in {"none", "ok"} :
          \E proposal \in IF llm = "ok" THEN Proposals ELSE {<<>>},
             parses \in BOOLEAN :
             SessReflection(reflectThrows, llm, proposal, "ok", {}, parses)
             /\ UNCHANGED notSess
    \/ \E throws \in BOOLEAN : SessRecord(throws) /\ UNCHANGED notSess

\* ------------------------------------------------- ContinuousLearningLoop
\* Times are milliseconds of local time counted from a Sunday 00:00:00.000,
\* in a time zone without daylight saving; -1 is a null Date.
MsPerMinute == 60 * 1000
MsPerHour == 60 * MsPerMinute
MsPerDay == 24 * MsPerHour

\* the period of the setInterval timer, and the retry delay of a failed task
TimerPeriod == 60000
RetryDelay == 300000
\* the `|| 1` and `|| 9` defaults of calculateNextRun, and its `|| 7`
DefaultInterval == 1
DefaultHour == 9
DaysPerWeek == 7

\* Date.prototype getters
GetDate(t) == t \div MsPerDay
GetDay(t) == GetDate(t) % DaysPerWeek
GetHours(t) == (t % MsPerDay) \div MsPerHour
GetMinutes(t) == (t % MsPerHour) \div MsPerMinute
GetSeconds(t) == (t % MsPerMinute) \div 1000
GetMilliseconds(t) == t % 1000

\* Date.prototype setters; a field beyond its range carries into the next one
SetDate(t, date) == t + (date - GetDate(t)) * MsPerDay
SetHours(t, hours) == t + (hours - GetHours(t)) * MsPerHour
SetMinutes(t, minutes) == t + (minutes - GetMinutes(t)) * MsPerMinute
SetSeconds(t, seconds) == t + (seconds - GetSeconds(t)) * 1000
SetHoursMinSecMs(t, hours) == GetDate(t) * MsPerDay + hours * MsPerHour

\* JavaScript `a || b` on numbers; -1 stands for undefined
OrElse(a, b) == IF a = -1 \/ a = 0 THEN b ELSE a

\* toISOString(): the text, as its fields <<day, hours, minutes, seconds, ms>>;
\* <<>> stands for null
NullIso == <<>>
ToISOString(t) ==
    <<GetDate(t), GetHours(t), GetMinutes(t), GetSeconds(t), GetMilliseconds(t)>>

\* new Date(text).getTime(); new Date(null) is the epoch, which is before
\* every value of the clock
ParseDate(iso) ==
    IF iso = NullIso THEN 0
    ELSE iso[1] * MsPerDay + iso[2] * MsPerHour + iso[3] * MsPerMinute
         + iso[4] * 1000 + iso[5]

\* calculateNextRun(task) up to its return statement: the Date `next`
NextRunDate(task, now) ==
    IF task.frequency = "hourly"
    THEN SetSeconds(
             SetMinutes(
                 SetHours(now, GetHours(now) + OrElse(task.interval, DefaultInterval)),
                 0),
             0)
    ELSE IF task.frequency = "daily"
    THEN SetHoursMinSecMs(SetDate(now, GetDate(now) + 1),
                          OrElse(task.hour, DefaultHour))
    ELSE IF task.frequency = "weekly"
    THEN LET daysUntil ==
                 IF task.dayOfWeek = -1 THEN DaysPerWeek
                 ELSE OrElse((task.dayOfWeek - GetDay(now) + DaysPerWeek)
                                 % DaysPerWeek,
                             DaysPerWeek)
         IN  SetHoursMinSecMs(SetDate(now, GetDate(now) + daysUntil),
                              OrElse(task.hour, DefaultHour))
    ELSE -1

\* calculateNextRun that leaves out the date step of a daily task
NextRunSameDay(task, now) ==
    LET next == NextRunDate(task, now)
    IN  IF next = -1 THEN NullIso
        ELSE IF task.frequency = "daily" THEN ToISOString(next - MsPerDay)
        ELSE ToISOString(next)

\* calculateNextRun(task): `next?.toISOString() || null`, a text or null
CalculateNextRun(task, now) ==
    LET next == NextRunDate(task, now)
    IN  IF next = -1 THEN NullIso ELSE ToISOString(next)

\* Number.prototype.toString(36): the digits of n, most significant first
Digits36 ==
    <<"0", "1", "2", "3", "4", "5", "6", "7", "8", "9", "a", "b", "c", "d",
      "e", "f", "g", "h", "i", "j", "k", "l", "m", "n", "o", "p", "q", "r",
      "s", "t", "u", "v", "w", "x", "y", "z">>
RECURSIVE ToString36(_)
ToString36(n) ==
    IF n < 36 THEN <<Digits36[n + 1]>>
    ELSE Append(ToString36(n \div 36), Digits36[(n % 36) + 1])

\* frequency specs: what addTask and calculateNextRun read of a task
FrequencySpec(frequency, interval, dayOfWeek, hour) ==
    [frequency |-> frequency, interval |-> interval, dayOfWeek |-> dayOfWeek,
     hour |-> hour]
ValidSpecs ==
    {FrequencySpec("hourly", n, -1, -1) : n \in (1..MaxInterval) \cup {24, 25}}
    \cup {FrequencySpec("daily", -1, -1, h) : h \in 0..23}
    \cup {FrequencySpec("weekly", -1, d, h) : d \in 0..6, h \in 0..23}
OtherSpecs ==
    {FrequencySpec("hourly", -1, -1, -1), FrequencySpec("daily", -1, -1, -1),
     FrequencySpec("weekly", -1, -1, -1), FrequencySpec("monthly", -1, -1, -1)}

\* instants at which calculateNextRun is tried alone: every weekday, the
\* first, a middle and the last hour, the first and the last millisecond of
\* an hour
SampleTimes ==
    {d * MsPerDay + h * MsPerHour + m : d \in 0..6, h \in {0, 9, 23},
                                       m \in {0, 1, MsPerHour - 1}}

\* ---- the scheduler's handlers as functions of its state
SchedState ==
    [objs |-> taskObjs, arrays |-> arrays, gen |-> schedGen,
     enabled |-> schedEnabled, lastRun |-> schedLastRun, running |-> isRunning,
     timers |-> timers, checkInterval |-> checkInterval, ticks |-> ticks]

\* this.schedule.tasks
TasksOf(sc) == sc.arrays[sc.gen]

\* what is kept of a task object that nothing refers to any more
Forgotten(n) ==
    [uid |-> n, createdAt |-> 0, id |-> <<>>, frequency |-> "", interval |-> -1,
     dayOfWeek |-> -1, hour |-> -1, enabled |-> FALSE, lastRun |-> NullIso,
     nextRun |-> NullIso]

\* the arrays that this.schedule.tasks has been and that no checkAndRunTasks
\* run walks any more are garbage, and so are the task objects that only they
\* held: the arrays are kept as empty, the objects as Forgotten
Collect(sc) ==
    LET live == [g \in 1..Len(sc.arrays) |->
                    IF g = sc.gen \/ \E t \in sc.ticks : t.gen = g
                    THEN sc.arrays[g] ELSE <<>>]
    IN  [sc EXCEPT !.arrays = live,
                   !.objs = [n \in 1..Len(@) |->
                                IF \E g \in 1..Len(live) :
                                      \E k \in 1..Len(live[g]) : live[g][k] = n
                                THEN @[n] ELSE Forgotten(n)]]

\* saveSchedule(): it writes schedule.json, which only the constructor reads;
\* the handlers below differ by it only in that each can throw where it is
\* called
SaveSchedule(sc) == sc

\* addTask(task) at time `now`; the new object's creation number is its
\* position in objs.  saveFails: writeFileSync throws, after the push.
NewTask(task, n, now) ==
    [uid |-> n, createdAt |-> now,
     id |-> ToString36(now),
     frequency |-> task.frequency, interval |-> task.interval,
     dayOfWeek |-> task.dayOfWeek, hour |-> task.hour,
     enabled |-> task.enabled,
     lastRun |-> NullIso,
     nextRun |-> CalculateNextRun(task, now)]

AddTaskOn(sc, task, now, saveFails) ==
    LET n == Len(sc.objs) + 1
        pushed == [sc EXCEPT !.objs = Append(@, NewTask(task, n, now)),
                             !.arrays[sc.gen] = Append(@, n)]
    IN  IF saveFails THEN pushed ELSE SaveSchedule(pushed)

\* Array.prototype.filter(t => t.id !== taskId): a new array
RECURSIVE WithoutId(_, _, _)
WithoutId(objs, arr, taskId) ==
    IF arr = <<>> THEN <<>>
    ELSE (IF objs[Head(arr)].id # taskId THEN <<Head(arr)>> ELSE <<>>)
         \o WithoutId(objs, Tail(arr), taskId)

\* removeTask(taskId)
RemoveTaskOn(sc, taskId, saveFails) ==
    LET filtered == [sc EXCEPT !.arrays = Append(@, WithoutId(sc.objs, TasksOf(sc),
                                                              taskId)),
                               !.gen = Len(sc.arrays) + 1]
    IN  Collect(IF saveFails THEN filtered ELSE SaveSchedule(filtered))

\* the loop of checkAndRunTasks without its `if (!task.enabled) continue`
RECURSIVE NextDueAlsoDisabled(_, _, _, _)
NextDueAlsoDisabled(objs, arr, from, now) ==
    IF from > Len(arr) THEN 0
    ELSE IF now >= ParseDate(objs[arr[from]].nextRun)
         THEN from
         ELSE NextDueAlsoDisabled(objs, arr, from + 1, now)

\* the loop of checkAndRunTasks from position `from` of the array it walks:
\* the position of the first enabled task with now >= nextRun, 0 if none
RECURSIVE NextDue(_, _, _, _)
NextDue(objs, arr, from, now) ==
    IF from > Len(arr) THEN 0
    ELSE IF objs[arr[from]].enabled /\ now >= ParseDate(objs[arr[from]].nextRun)
         THEN from
         ELSE NextDue(objs, arr, from + 1, now)

\* the smallest positive number that names none of the records of S
FreeId(S, field) ==
    CHOOSE i \in 1..(Cardinality(S) + 1) :
        /\ \A r \in S : r[field] # i
        /\ \A j \in 1..(i - 1) : \E r \in S : r[field] = j

\* checkAndRunTasks() up to its first await: it returns at once when the loop
\* is not running or has no session runner; else it walks the tasks up to the
\* first due one and awaits runTask, or sets schedule.lastRun if none is due
CheckAndRunTasksOn(sc, now, runner) ==
    IF ~sc.running \/ ~runner THEN sc
    ELSE LET k == NextDue(sc.objs, TasksOf(sc), 1, now)
         IN  IF k = 0 THEN [sc EXCEPT !.lastRun = ToISOString(now)]
             ELSE [sc EXCEPT !.ticks = @ \cup {[tid |-> FreeId(@, "tid"),
                                                now |-> now, gen |-> sc.gen,
                                                pos |-> k]}]

\* the try/catch around runTask that, on failure, also advances lastRun
AfterRunAdvancing(task, now, ok) ==
    [task EXCEPT !.lastRun = ToISOString(now),
                 !.nextRun = ToISOString(now + RetryDelay)]

AfterRunStale(task, now, ok) ==
    IF ok THEN [task EXCEPT !.lastRun = ToISOString(now)] ELSE task

\* `try { await runTask; lastRun = now; nextRun = calculateNextRun(task)
\* .toISOString() } catch { nextRun = now + 5 min }` on the task object.
\* calculateNextRun returns a text or null, neither of which has a
\* toISOString method: after a successful run the assignment of nextRun
\* throws a TypeError, lastRun being set already, and the catch runs.
AfterRun(task, now, ok) ==
    IF ok
    THEN [task EXCEPT !.lastRun = ToISOString(now),
                      !.nextRun = ToISOString(now + RetryDelay)]
    ELSE [task EXCEPT !.nextRun = ToISOString(now + RetryDelay)]

\* checkAndRunTasks() from the end of an awaited runTask to its next await or
\* its end.  saveFails: saveSchedule throws and the run ends there.
ResumeOn(sc, tick, ok, saveFails) ==
    LET arr == sc.arrays[tick.gen]
        uid == arr[tick.pos]
        ran == [sc EXCEPT !.objs[uid] = AfterRun(@, tick.now, ok),
                          !.ticks = @ \ {tick}]
    IN  Collect(
          IF saveFails THEN ran
          ELSE LET saved == SaveSchedule(ran)
                   k == NextDue(saved.objs, arr, tick.pos + 1, tick.now)
               IN  IF k = 0 THEN [saved EXCEPT !.lastRun = ToISOString(tick.now)]
                   ELSE [saved EXCEPT !.ticks = @ \cup {[tick EXCEPT !.pos = k]}])

\* start() without its isRunning check
StartAgain(sc, now, runner, saveFails) ==
    LET on == [sc EXCEPT !.running = TRUE, !.enabled = TRUE]
    IN  IF saveFails THEN on
        ELSE LET id == FreeId(sc.timers, "id")
                 timed == [SaveSchedule(on) EXCEPT
                              !.timers = @ \cup {[id |-> id,
                                                  next |-> now + TimerPeriod]},
                              !.checkInterval = id]
             IN  CheckAndRunTasksOn(timed, now, runner)

\* start().  saveFails: saveSchedule throws, before the timer is made.
StartOn(sc, now, runner, saveFails) ==
    IF sc.running THEN sc
    ELSE LET on == [sc EXCEPT !.running = TRUE, !.enabled = TRUE]
         IN  IF saveFails THEN on
             ELSE LET id == FreeId(sc.timers, "id")
                      timed == [SaveSchedule(on) EXCEPT
                                   !.timers = @ \cup {[id |-> id,
                                                       next |-> now + TimerPeriod]},
                                   !.checkInterval = id]
                  IN  CheckAndRunTasksOn(timed, now, runner)

\* stop().  saveFails: its saveSchedule, the last statement, throws.
StopOn(sc, saveFails) ==
    LET off == [sc EXCEPT !.running = FALSE, !.enabled = FALSE,
                          !.timers = {t \in @ : t.id # sc.checkInterval}]
    IN  IF saveFails THEN off ELSE SaveSchedule(off)

\* enable(enabled).  failAt: which saveSchedule call throws, 0 for none.
EnableOn(sc, enabled, now, runner, failAt) ==
    LET set == [sc EXCEPT !.enabled = enabled]
    IN  IF failAt = 1 THEN set
        ELSE IF enabled THEN StartOn(SaveSchedule(set), now, runner, failAt = 2)
        ELSE StopOn(SaveSchedule(set), failAt = 2)

\* ---- inputs of the scheduler's callers
NoSpec == FrequencySpec("none", -1, -1, -1)

\* tasks passed to addTask: `enabled` is task.enabled ?? true
TaskInput(frequency, interval, dayOfWeek, hour, enabled) ==
    [frequency |-> frequency, interval |-> interval, dayOfWeek |-> dayOfWeek,
     hour |-> hour, enabled |-> enabled]
TaskInputs ==
    {TaskInput("hourly", 1, -1, -1, TRUE), TaskInput("hourly", 1, -1, -1, FALSE),
     TaskInput("monthly", -1, -1, 9, TRUE)}

\* the scheduler is constructed one minute before the end of an hour, and
\* tasks are added within that minute
StartTime == 59 * MsPerMinute
LastAddTime == StartTime

\* the instants the clock is read at: every minute of the first MaxMinutes,
\* and one minute after the retry of a run of the last of these minutes
LateTime == StartTime + MaxMinutes * MsPerMinute + RetryDelay + MsPerMinute
Instants == {StartTime + k * MsPerMinute : k \in 0..MaxMinutes} \cup {LateTime}

\* the ids of the tasks of the schedule
TaskIds == {taskObjs[arrays[schedGen][k]].id : k \in 1..Len(arrays[schedGen])}

\* ---- actions of the scheduler
SetSched(sc) ==
    /\ taskObjs' = sc.objs
    /\ arrays' = sc.arrays
    /\ schedGen' = sc.gen
    /\ schedEnabled' = sc.enabled
    /\ schedLastRun' = sc.lastRun
    /\ isRunning' = sc.running
    /\ timers' = sc.timers
    /\ checkInterval' = sc.checkInterval
    /\ ticks' = sc.ticks

\* what schedLast says of a step: the step, the task it ran (creation number
\* and outcome), the time its checkAndRunTasks run read, whether it threw,
\* and for calculateNextRun called on its own the argument and the result
LastStep(op) ==
    [op |-> op, uid |-> 0, ok |-> TRUE, now |-> 0, threw |-> FALSE,
     calc |-> NullIso, spec |-> NoSpec]

FaultIf(b) == Fault(IF b THEN 1 ELSE 0)

AddTask(task, saveFails) ==
    /\ Len(taskObjs) < MaxSchedTasks
    /\ clock <= LastAddTime
    /\ SetSched(AddTaskOn(SchedState, task, clock, saveFails))
    /\ schedLast' = [LastStep("addTask") EXCEPT !.uid = Len(taskObjs) + 1,
                                                !.threw = saveFails]
    /\ FaultIf(saveFails)
    /\ UNCHANGED <<clock, hasRunner>>

RemoveTask(taskId, saveFails) ==
    /\ Len(arrays) <= MaxRemoves
    /\ SetSched(RemoveTaskOn(SchedState, taskId, saveFails))
    /\ schedLast' = [LastStep("removeTask") EXCEPT !.threw = saveFails]
    /\ FaultIf(saveFails)
    /\ UNCHANGED <<clock, hasRunner>>

Start(saveFails) ==
    /\ Cardinality(ticks) < MaxInFlight
    /\ saveFails => ~isRunning
    /\ SetSched(StartOn(SchedState, clock, hasRunner, saveFails))
    /\ schedLast' = [LastStep("start") EXCEPT !.threw = saveFails,
                                              !.ok = ~isRunning]
    /\ FaultIf(saveFails)
    /\ UNCHANGED <<clock, hasRunner>>

Stop(saveFails) ==
    /\ SetSched(StopOn(SchedState, saveFails))
    /\ schedLast' = [LastStep("stop") EXCEPT !.threw = saveFails]
    /\ FaultIf(saveFails)
    /\ UNCHANGED <<clock, hasRunner>>

Enable(enabled, failAt) ==
    /\ Cardinality(ticks) < MaxInFlight
    /\ failAt = 2 => ~(enabled /\ isRunning)
    /\ SetSched(EnableOn(SchedState, enabled, clock, hasRunner, failAt))
    /\ schedLast' = [LastStep("enable") EXCEPT !.threw = failAt # 0,
                                               !.ok = enabled]
    /\ FaultIf(failAt # 0)
    /\ UNCHANGED <<clock, hasRunner>>

\* the setInterval callback of timer t, when its period has passed
TimerFire(t) ==
    /\ t \in timers
    /\ t.next <= clock
    /\ Cardinality(ticks) < MaxInFlight
    /\ SetSched(CheckAndRunTasksOn(
                    [SchedState EXCEPT
                        !.timers = (@ \ {t})
                                   \cup {[t EXCEPT !.next = @ + TimerPeriod]}],
                    clock, hasRunner))
    /\ schedLast' = LastStep("timer")
    /\ UNCHANGED <<clock, hasRunner, faults>>

\* the runTask a checkAndRunTasks run awaits ends, well (ok) or with an error
TaskDone(tick, ok, saveFails) ==
    /\ tick \in ticks
    /\ LET uid == arrays[tick.gen][tick.pos]
       IN  schedLast' = [LastStep("taskDone") EXCEPT
                            !.uid = uid, !.ok = ok, !.now = tick.now,
                            !.threw = saveFails]
    /\ SetSched(ResumeOn(SchedState, tick, ok, saveFails))
    /\ FaultIf(saveFails)
    /\ UNCHANGED <<clock, hasRunner>>

\* time passes; a timer that is due fires before more time passes
Advance(to) ==
    /\ clock < to
    /\ \A t \in timers : to <= t.next
    /\ clock' = to
    /\ schedLast' = LastStep("advance")
    /\ UNCHANGED <<taskObjs, arrays, schedGen, schedEnabled, schedLastRun,
                   isRunning, hasRunner, timers, checkInterval, ticks,
                   faults>>

\* calculateNextRun(task) called on its own
CalculateNextRunCall(task) ==
    /\ schedLast' = [LastStep("calculateNextRun") EXCEPT
                        !.spec = task, !.calc = CalculateNextRun(task, clock)]
    /\ UNCHANGED <<clock, taskObjs, arrays, schedGen, schedEnabled,
                   schedLastRun, isRunning, hasRunner, timers, checkInterval,
                   ticks, faults>>

\* the state after `new ContinuousLearningLoop({sessionRunner})` with no
\* schedule file
SchedFields ==
    /\ taskObjs = <<>>
    /\ arrays = << <<>> >>
    /\ schedGen = 1
    /\ schedEnabled = FALSE
    /\ schedLastRun = NullIso
    /\ isRunning = FALSE
    /\ timers = {}
    /\ checkInterval = 0
    /\ ticks = {}
    /\ schedLast = [op |-> "init", uid |-> 0, ok |-> TRUE, now |-> 0,
                    threw |-> FALSE, calc |-> NullIso, spec |-> NoSpec]

SchedInit == clock = StartTime /\ hasRunner \in BOOLEAN /\ SchedFields
\* no scheduler
SchedIdle == clock = 0 /\ hasRunner = FALSE /\ SchedFields
\* a scheduler at one of the sample instants
CalcInit == clock \in SampleTimes /\ hasRunner = FALSE /\ SchedFields

SchedNext ==
    \/ \E task \in TaskInputs, saveFails \in BOOLEAN :
          AddTask(task, saveFails) /\ UNCHANGED notSched
    \/ \E taskId \in TaskIds \cup {<<"x">>}, saveFails \in BOOLEAN :
          RemoveTask(taskId, saveFails) /\ UNCHANGED notSched
    \/ \E saveFails \in BOOLEAN : Start(saveFails) /\ UNCHANGED notSched
    \/ \E saveFails \in BOOLEAN : Stop(saveFails) /\ UNCHANGED notSched
    \/ \E enabled \in BOOLEAN, failAt \in 0..2 :
          Enable(enabled, failAt) /\ UNCHANGED notSched
    \/ \E t \in timers : TimerFire(t) /\ UNCHANGED notSched
    \/ \E tick \in ticks, ok \in BOOLEAN, saveFails \in BOOLEAN :
          TaskDone(tick, ok, saveFails) /\ UNCHANGED notSched
    \/ \E to \in Instants :
          Advance(to) /\ UNCHANGED notSched

CalcNext ==
    \E task \in ValidSpecs \cup OtherSpecs :
        CalculateNextRunCall(task) /\ UNCHANGED notSched

\* ---------------------------------------------------------- MemorySystem
\* a field an entry does not have
NoTags == <<Undefined>>
\* the similarity of a result that has no similarity field
NoScore == 0 - 1
\* similarities and distances are counted in tenths
One == 10

\* the entries given to addKnowledge
EntryInputs ==
    {[topic |-> <<"A", "I">>, content |-> <<"r", "a", "g">>,
      tags |-> << <<"S", "e", "c">> >>],
     [topic |-> <<"m", "a", "p">>, content |-> <<"B", "o", "t">>,
      tags |-> NoTags],
     [topic |-> Undefined, content |-> <<"s", "A", "i", "l">>, tags |-> <<>>],
     [topic |-> <<"r", "a", "t">>, content |-> Undefined,
      tags |-> << <<"k", "b">>, <<"a", "I">> >>]}

Queries == {<<"a", "i">>, <<"A", "I">>, <<"B", "O", "T">>, <<"z">>, <<>>}

\* a distance a similarity search reports, in tenths
HalfWay == 5

\* field?.toLowerCase().includes(q)
FieldIncludes(field, q) == field # Undefined /\ Includes(ToLowerCase(field), q)

\* the filter of searchKnowledge with no toLowerCase on the entry's side
EntryMatchesAsWritten(entry, q) ==
    \/ entry.topic # Undefined /\ Includes(entry.topic, q)
    \/ entry.content # Undefined /\ Includes(entry.content, q)
    \/ /\ entry.tags # NoTags
       /\ \E k \in 1..Len(entry.tags) : Includes(entry.tags[k], q)

\* the filter of searchKnowledge
EntryMatches(entry, q) ==
    \/ FieldIncludes(entry.topic, q)
    \/ FieldIncludes(entry.content, q)
    \/ /\ entry.tags # NoTags
       /\ \E k \in 1..Len(entry.tags) : FieldIncludes(entry.tags[k], q)

\* searchKnowledge(query) on the entries of knowledge.json
SearchKnowledgeOn(entries, query) ==
    LET q == ToLowerCase(query)
    IN  SelectSeq(entries, LAMBDA entry : EntryMatches(entry, q))

\* Array.prototype.slice(0, n)
SliceTo(s, n) == SubSeq(s, 1, IF Len(s) < n THEN Len(s) ELSE n)

\* an entry as searchKnowledge returns it: with no similarity field
Plain(entries) ==
    [k \in 1..Len(entries) |-> [entry |-> entries[k], similarity |-> NoScore]]

\* the keyword search semanticSearch falls back to
Fallback(entries, query, nResults) ==
    Plain(SliceTo(SearchKnowledgeOn(entries, query), nResults))

\* data.entries.find(e => e.id === id), <<>> for undefined
FindById(entries, id) ==
    SelectSeq(entries, LAMBDA e : e.id = id)

RECURSIVE Ranked(_, _, _, _)
\* results.ids.map(find).filter(Boolean).map((entry, i) => ({...entry,
\* similarity: 1 - (results.distances[i] || 0)})) from position k of ids on
Ranked(entries, ids, distances, k) ==
    IF k > Len(ids) THEN <<>>
    ELSE LET hit == FindById(entries, ids[k])
         IN  IF hit = <<>> THEN Ranked(entries, SubSeq(ids, 1, k - 1)
                                                \o SubSeq(ids, k + 1, Len(ids)),
                                       distances, k)
             ELSE <<[entry |-> hit[1],
                     similarity |-> One - (IF k <= Len(distances)
                                           THEN distances[k] ELSE 0)]>>
                  \o Ranked(entries, ids, distances, k + 1)

\* semanticSearch(query, nResults); backend: what vectorMemory.search gives
SemanticSearchOn(entries, hasVector, query, nResults, backend) ==
    IF ~hasVector THEN Fallback(entries, query, nResults)
    ELSE IF backend.threw THEN Fallback(entries, query, nResults)
    ELSE Ranked(entries, backend.ids, backend.distances, 1)

\* initializeVectorMemory(): ok is whether the import and initialize() work
InitializeVectorMemory(ok) ==
    /\ ~vectorMemory
    /\ vectorMemory' = ok
    /\ memLast' = [op |-> "initializeVectorMemory", threw |-> FALSE,
                   query |-> <<>>, nResults |-> 0, result |-> <<>>,
                   fellBack |-> FALSE]
    /\ UNCHANGED <<knowledge, vectorIndex, faults>>

\* addKnowledge(entry); io: the file-system call that throws; added: whether
\* the similarity backend stores the content
AddKnowledge(entry, io, added) ==
    /\ Len(knowledge) < MaxEntries
    /\ LET knowledgeEntry == [id |-> Len(knowledge) + 1, topic |-> entry.topic,
                              content |-> entry.content, tags |-> entry.tags]
           toVector == /\ vectorMemory /\ added
                       /\ entry.content # Undefined /\ entry.content # <<>>
       IN  /\ io # "ok" => ~added
           /\ ~(vectorMemory /\ entry.content # Undefined) => ~added
           /\ knowledge' = IF io = "ok" THEN Append(knowledge, knowledgeEntry)
                           ELSE knowledge
           /\ vectorIndex' = IF io = "ok" /\ toVector
                             THEN vectorIndex \cup {knowledgeEntry.id}
                             ELSE vectorIndex
           /\ memLast' = [op |-> "addKnowledge", threw |-> io # "ok",
                          query |-> <<>>, nResults |-> 0,
                          result |-> IF io = "ok" THEN Plain(<<knowledgeEntry>>)
                                     ELSE <<>>,
                          fellBack |-> FALSE]
    /\ Fault(IF io = "ok" THEN 0 ELSE 1)
    /\ UNCHANGED vectorMemory

\* searchKnowledge(query); io = "read": loadJson returns null
SearchKnowledge(query, io) ==
    /\ memLast' = [op |-> "searchKnowledge", threw |-> io # "ok",
                   query |-> query, nResults |-> 0,
                   result |-> IF io = "ok"
                              THEN Plain(SearchKnowledgeOn(knowledge, query))
                              ELSE <<>>,
                   fellBack |-> FALSE]
    /\ Fault(IF io = "ok" THEN 0 ELSE 1)
    /\ UNCHANGED <<knowledge, vectorMemory, vectorIndex>>

\* semanticSearch(query, nResults)
SemanticSearch(query, nResults, backend) ==
    /\ ~vectorMemory => backend = [threw |-> TRUE, ids |-> <<>>, distances |-> <<>>]
    /\ memLast' = [op |-> "semanticSearch", threw |-> FALSE,
                   query |-> query, nResults |-> nResults,
                   result |-> SemanticSearchOn(knowledge, vectorMemory, query,
                                               nResults, backend),
                   fellBack |-> ~vectorMemory \/ backend.threw]
    /\ UNCHANGED <<knowledge, vectorMemory, vectorIndex, faults>>

\* what vectorMemory.search may answer for nResults: it throws, or gives up
\* to nResults of the stored ids, nearest first, with their distances
BackendAnswers(nResults) ==
    {[threw |-> TRUE, ids |-> <<>>, distances |-> <<>>]}
    \cup {[threw |-> FALSE, ids |-> ids, distances |-> distances] :
            ids \in {<<>>} \cup {<<a>> : a \in vectorIndex}
                    \cup {ab \in vectorIndex \X vectorIndex :
                            ab[1] # ab[2] /\ nResults > 1},
            distances \in {<<>>, <<HalfWay>>, <<0, HalfWay>>}}

MemInit ==
    /\ knowledge = <<>>
    /\ vectorMemory = FALSE
    /\ vectorIndex = {}
    /\ memLast = [op |-> "init", threw |-> FALSE, query |-> <<>>,
                  nResults |-> 0, result |-> <<>>, fellBack |-> FALSE]

MemNext ==
    \/ \E ok \in BOOLEAN : InitializeVectorMemory(ok) /\ UNCHANGED notMem
    \/ \E entry \in EntryInputs, io \in {"ok", "read", "write"},
          added \in BOOLEAN :
          AddKnowledge(entry, io, added) /\ UNCHANGED notMem
    \/ \E query \in Queries, io \in {"ok", "read"} :
          SearchKnowledge(query, io) /\ UNCHANGED notMem
    \/ \E query \in Queries, nResults \in 1..MaxResults :
          \E backend \in BackendAnswers(nResults) :
             SemanticSearch(query, nResults, backend) /\ UNCHANGED notMem

\* ---- the metrics log and the read-only calls of MemorySystem
\* the list of topics identifyGaps looks for
PotentialGaps ==
    <<<<"A", "I", " ", "s", "a", "f", "e", "t", "y", " ", "p", "r",
        "a", "c", "t", "i", "c", "e", "s">>,
      <<"c", "y", "b", "e", "r", "s", "e", "c", "u", "r", "i", "t",
        "y">>,
      <<"w", "e", "b", " ", "a", "p", "p", "l", "i", "c", "a", "t",
        "i", "o", "n", " ", "s", "e", "c", "u", "r", "i", "t",
        "y">>,
      <<"e", "t", "h", "i", "c", "a", "l", " ", "h", "a", "c", "k",
        "i", "n", "g">>,
      <<"L", "L", "M", " ", "p", "r", "o", "m", "p", "t", " ", "e",
        "n", "g", "i", "n", "e", "e", "r", "i", "n", "g">>,
      <<"a", "g", "e", "n", "t", " ", "a", "r", "c", "h", "i", "t",
        "e", "c", "t", "u", "r", "e", "s">>,
      <<"v", "e", "c", "t", "o", "r", " ", "d", "a", "t", "a", "b",
        "a", "s", "e", "s">>,
      <<"R", "A", "G", " ", "s", "y", "s", "t", "e", "m", "s">>>>

\* identifyGaps() on the entries of knowledge.json: the potential gaps that no
\* lower-cased topic contains
IdentifyGapsOn(entries) ==
    SelectSeq(PotentialGaps,
              LAMBDA gap : ~\E k \in 1..Len(entries) :
                               FieldIncludes(entries[k].topic, ToLowerCase(gap)))

MemCall(op, threw, result) ==
    [op |-> op, threw |-> threw, query |-> <<>>, nResults |-> 0,
     result |-> result, fellBack |-> FALSE]

MetricsUnchangedSession ==
    UNCHANGED <<sessPc, sessTasks, taskIdx, tasksCompleted, tasksFailed,
                verificationsPassed, taskOutcomes, taskScores, synthCalls,
                topTags, improveCalls, enableSelfModification, sessLog>>

\* recordSession(sessionData); io: loadJson finds no readable metrics.json and
\* returns null, so that data.sessions throws, or saveJson throws
RecordSessionCall(completed, io) ==
    /\ Len(metricsSessions) < MaxSessions
    /\ \E r \in {RecordSession(metricsSessions, totalTasks, completed, 0, 0)} :
          /\ metricsSessions' = IF io = "ok" THEN r.sessions ELSE metricsSessions
          /\ totalTasks' = IF io = "ok" THEN r.totalTasks ELSE totalTasks
    /\ memLast' = MemCall("recordSession", io # "ok", <<>>)
    /\ Fault(IF io = "ok" THEN 0 ELSE 1)
    /\ MetricsUnchangedSession
    /\ UNCHANGED <<knowledge, vectorMemory, vectorIndex, fbVars, smVars, schedVars>>

\* getStats(): it reads the three files; the value it returns is not kept
GetStats(io) ==
    /\ memLast' = MemCall("getStats", io # "ok", <<>>)
    /\ Fault(IF io = "ok" THEN 0 ELSE 1)
    /\ UNCHANGED <<knowledge, vectorMemory, vectorIndex>>

\* identifyGaps()
IdentifyGaps(io) ==
    /\ memLast' = MemCall("identifyGaps", io # "ok",
                          IF io = "ok" THEN IdentifyGapsOn(knowledge) ELSE <<>>)
    /\ Fault(IF io = "ok" THEN 0 ELSE 1)
    /\ UNCHANGED <<knowledge, vectorMemory, vectorIndex>>

\* entries given to addKnowledge: one on a topic of the gap list, one without
\* a topic
MetricsEntries ==
    {[topic |-> <<"M", "y", " ", "R", "A", "G", " ", "S", "y", "s", "t", "e", "m", "s">>,
      content |-> <<"r", "a", "g">>, tags |-> NoTags],
     [topic |-> Undefined, content |-> <<"s", "A", "i", "l">>, tags |-> <<>>]}

\* tasksCompleted of the session data given to recordSession
CompletedCounts == {-1, 0, 1, 2}

MetricsNext ==
    \/ \E entry \in MetricsEntries, io \in {"ok", "read", "write"} :
          AddKnowledge(entry, io, FALSE) /\ UNCHANGED notMem
    \/ \E completed \in CompletedCounts, io \in {"ok", "read", "write"} :
          RecordSessionCall(completed, io)
    \/ \E io \in {"ok", "read"} : GetStats(io) /\ UNCHANGED notMem
    \/ \E query \in Queries, io \in {"ok", "read"} :
          SearchKnowledge(query, io) /\ UNCHANGED notMem
    \/ \E io \in {"ok", "read"} : IdentifyGaps(io) /\ UNCHANGED notMem

\* the state after `new HumanFeedbackLoop()` on an empty feedback directory
FbInit ==
    /\ pending = <<>> /\ approved = <<>> /\ rejected = <<>>
    /\ diskPending = <<>> /\ diskApproved = <<>> /\ diskRejected = <<>>
    /\ itemFiles = {}
    /\ nextUuid = 0
    /\ fbNow = 0
    /\ fbLast = [op |-> "init", id |-> NULL, uid |-> 0, threw |-> FALSE,
                 success |-> TRUE]
    /\ faults = 0

\* the self-modification system before it is constructed
SmIdle ==
    /\ projFiles = [f \in {} |-> 0]
    /\ backups = [t \in {} |-> 0]
    /\ modificationLog = <<>>
    /\ maxBackups = 0
    /\ smNow = 0
    /\ backupCalls = <<>>
    /\ filesAtBackup = [t \in {} |-> 0]
    /\ smLast = [op |-> "init", threw |-> FALSE, improved |-> FALSE,
                 reason |-> NULL, error |-> <<>>, events |-> <<>>,
                 mods |-> <<>>, results |-> <<>>, parses |-> FALSE, backup |-> -1]

FbNext ==
    \/ \E item \in ItemInputs, io \in QueueIo : QueueForReview(item, io) /\ UNCHANGED notFb
    \/ \E id \in ReviewIds, review \in DirectReviews, io \in ReviewIo :
          SubmitReview(id, review, io) /\ UNCHANGED notFb
    \/ \E id \in ReviewIds, io \in ReviewIo : Approve(id, "", io) /\ UNCHANGED notFb
    \/ \E id \in ReviewIds, io \in ReviewIo : Reject(id, "", io) /\ UNCHANGED notFb
    \/ \E items \in AutoQueueInputs, ios \in [1..2 -> QueueIo],
          threshold \in {50, DefaultThreshold} :
          AutoQueue(items, threshold, ios) /\ UNCHANGED notFb
    \/ LearnFromApproved /\ UNCHANGED notFb
    \/ \E daysOld \in {0, 1}, failWrite \in 0..1, io \in QueueIo :
          ArchiveOldItems(daysOld, failWrite, io) /\ UNCHANGED notFb
    \/ FbTick /\ UNCHANGED notFb

\* a feedback loop alone; a self-modification system alone; one session of
\* an improver that owns both
FbSpecInit == FbInit /\ SmIdle /\ SessIdle /\ SchedIdle /\ MemInit
SmSpecInit == FbInit /\ SmInit /\ SessIdle /\ SchedIdle /\ MemInit
SessSpecInit == FbInit /\ SmInit /\ SessInit /\ SchedIdle /\ MemInit
SchedSpecInit == FbInit /\ SmIdle /\ SessIdle /\ SchedInit /\ MemInit
CalcSpecInit == FbInit /\ SmIdle /\ SessIdle /\ CalcInit /\ MemInit
CatSpecInit == FbInit /\ SmIdle /\ SessIdle /\ SchedIdle /\ MemInit
RevertSpecInit == FbInit /\ SmInit /\ SessIdle /\ SchedIdle /\ MemInit

FbSpec == FbSpecInit /\ [][FbNext]_vars

SmSpec == SmSpecInit /\ [][SmNext]_vars

SessSpec == SessSpecInit /\ [][SessNext]_vars

\* a scheduler alone; calculateNextRun alone
SchedSpec == SchedSpecInit /\ [][SchedNext]_vars

CalcSpec == CalcSpecInit /\ [][CalcNext]_vars
\* categorizeFailure and canSelfModify alone
CatSpec == CatSpecInit /\ [][CatNext]_vars
\* backups, edits and reverts alone
RevertSpec == RevertSpecInit /\ [][RevertNext]_vars
\* the memory system alone
MemSpecInit == FbInit /\ SmIdle /\ SessIdle /\ SchedIdle /\ MemInit
MemSpec == MemSpecInit /\ [][MemNext]_vars
\* a knowledge store whose sessions are recorded and whose files are read
MetricsSpecInit == FbInit /\ SmIdle /\ SessIdle /\ SchedIdle /\ MemInit
MetricsSpec == MetricsSpecInit /\ [][MetricsNext]_vars

\* ======================================================== feedback queue
UidsOf(list) == {list[k].uid : k \in 1..Len(list)}
ItemOf(list, u) == list[CHOOSE k \in 1..Len(list) : list[k].uid = u]

\* C1: an item's status starts as pending and changes at most once, from
\* pending to approved or rejected; a reviewed item never changes status
\* again and never returns to pending.
C1_StatusOneWay ==
    [][/\ \A u \in UidsOf(AllItems) \cap UidsOf(AllItems') :
             \/ ItemOf(AllItems', u).status = ItemOf(AllItems, u).status
             \/ /\ ItemOf(AllItems, u).status = "pending"
                /\ ItemOf(AllItems', u).status \in {"approved", "rejected"}
       /\ \A u \in UidsOf(AllItems') \ UidsOf(AllItems) :
             ItemOf(AllItems', u).status = "pending"]_vars

\* an approved and a rejected item exist after a successful review
C1_Witness ==
    /\ fbLast.op = "submitReview" /\ fbLast.success
    /\ \E k \in 1..Len(approved) : approved[k].status = "approved"
    /\ \E k \in 1..Len(rejected) : rejected[k].status = "rejected"

\* C2: submitReview with an id that is not in the pending list returns a
\* failure result and changes neither the lists, nor the files, nor any
\* field of a reviewed item.
C2_NotPendingFails ==
    [][(/\ fbLast'.op = "submitReview"
        /\ \A k \in 1..Len(pending) : pending[k].id # fbLast'.id)
       => /\ ~fbLast'.success
          /\ ~fbLast'.threw
          /\ UNCHANGED <<pending, approved, rejected, diskPending,
                         diskApproved, diskRejected, itemFiles>>]_vars

\* a review of an already approved item was refused
C2_Witness ==
    /\ fbLast.op = "submitReview" /\ ~fbLast.success /\ ~fbLast.threw
    /\ \E k \in 1..Len(approved) : approved[k].id = fbLast.id
    /\ \A k \in 1..Len(pending) : pending[k].id # fbLast.id

\* C3: after submitReview of a pending item, in every outcome, the item is
\* either in its destination list and absent from pending, in memory and in
\* the persisted queue files alike, or still pending in both; and a call that
\* reports success has removed it from the persisted pending list.
C3_AtomicMove ==
    (fbLast.op = "submitReview" /\ fbLast.uid # 0) =>
        LET u == fbLast.uid
            memPending == u \in UidsOf(pending)
            memDest == u \in UidsOf(approved) \cup UidsOf(rejected)
            diskPend == u \in UidsOf(diskPending)
            diskDest == u \in UidsOf(diskApproved) \cup UidsOf(diskRejected)
        IN  /\ \/ memDest /\ diskDest /\ ~memPending /\ ~diskPend
               \/ memPending /\ diskPend /\ ~memDest /\ ~diskDest
            /\ fbLast.success => ~diskPend

\* the number of tasks whose executeTask ended as `kind` says
RECURSIVE CountOutcomes(_, _)
CountOutcomes(outcomes, raised) ==
    IF outcomes = <<>> THEN 0
    ELSE (IF (Head(outcomes) # "none") = raised THEN 1 ELSE 0)
         + CountOutcomes(Tail(outcomes), raised)

\* C4: after the task loop over n tasks every task has been attempted, each
\* task is counted in exactly one of tasksCompleted (no step of its pipeline
\* raised) or tasksFailed (some step raised), and so
\* tasksCompleted + tasksFailed = n.
C4_EachTaskCountedOnce ==
    (sessPc \in {"synthesis", "reflection", "record", "done", "aborted"}) =>
        /\ Len(taskOutcomes) = Len(sessTasks)
        /\ tasksCompleted = CountOutcomes(taskOutcomes, FALSE)
        /\ tasksFailed = CountOutcomes(taskOutcomes, TRUE)
        /\ tasksCompleted + tasksFailed = Len(sessTasks)

\* C5: a run of runSession that recordSession itself did not abort records
\* the session metrics exactly once, after the task loop, synthesis and
\* reflection, whether or not synthesis or reflection raised an error.
C5_MetricsRecordedOnce ==
    /\ Len(metricsSessions) <= 1
    /\ sessPc = "done" =>
          /\ Len(metricsSessions) = 1
          /\ sessLog[Len(sessLog)] = "record"
    /\ (sessPc = "aborted" /\ sessLog[Len(sessLog)] # "record threw") =>
          Len(metricsSessions) = 1

\* C6: once a session is past its reflection step, or has ended, improve()
\* has been invoked exactly once with the error text "<tasksFailed> tasks
\* failed" if tasksFailed > 0, and never if tasksFailed = 0.
C6_ImproveOncePerFailedSession ==
    (sessPc \in {"record", "done", "aborted"}) =>
        improveCalls = IF tasksFailed > 0
                       THEN <<TasksFailedText(tasksFailed)>> ELSE <<>>

\* C7: every record improve() appended to the modification history was
\* preceded, within the same improve() call, by a completed backup.
C7_RecordOnlyAfterBackup ==
    \A k \in 1..Len(modificationLog) :
        modificationLog[k].kind = "improvement" => modificationLog[k].backedUp

\* the position of the first occurrence of e in events, 0 if there is none
FirstEvent(events, e) ==
    IF e \in Range(events)
    THEN CHOOSE k \in 1..Len(events) :
            events[k] = e /\ \A j \in 1..(k - 1) : events[j] # e
    ELSE 0

\* C8: in applyModifications, alone or within improve, no target file is
\* written before createBackup has completed; and if createBackup fails, no
\* target file is written, no change is appended to the modification log,
\* and the failure reaches the caller.
C8_NoWriteWithoutBackup ==
    [][smLast'.op \in {"applyModifications", "improve"} =>
          LET ev == smLast'.events
          IN  /\ "write" \in Range(ev) =>
                    /\ "backup" \in Range(ev)
                    /\ FirstEvent(ev, "backup") < FirstEvent(ev, "write")
              /\ projFiles' # projFiles => "backup" \in Range(ev)
              /\ "backup_failed" \in Range(ev) =>
                    /\ "write" \notin Range(ev) /\ "log" \notin Range(ev)
                    /\ UNCHANGED <<projFiles, modificationLog>>
                    /\ smLast'.threw]_vars

\* after a call that changed a file, a later call whose backup failed threw
\* and left the files and the log alone
C8_Witness ==
    /\ smLast.op \in {"applyModifications", "improve"}
    /\ "backup_failed" \in Range(smLast.events)
    /\ smLast.threw
    /\ \E k \in 1..Len(modificationLog) : modificationLog[k].kind = "change"

\* the failure categories canSelfModify rejects
NotSelfModifiable == {"api_error", "resource_error", "unknown"}

\* C9: improve(failure) for a failure whose category is not self-modifiable
\* stops after the analysis: no proposal, no backup, no file written, no
\* test, nothing appended to the history, and it returns improved = false
\* with reason "cannot_self_modify".
C9_NotModifiableNoEffect ==
    [][(/\ smLast'.op = "improve"
        /\ CategorizeFailure(smLast'.error) \in NotSelfModifiable)
       => /\ smLast'.events = <<"analyze">>
          /\ ~smLast'.improved /\ smLast'.reason = "cannot_self_modify"
          /\ ~smLast'.threw
          /\ UNCHANGED <<projFiles, backups, modificationLog, backupCalls>>]_vars

\* improve() of an API-key failure came back after an earlier call had changed
\* a file
C9_Witness ==
    /\ smLast.op = "improve"
    /\ smLast.error = TextApiKey
    /\ smLast.reason = "cannot_self_modify"
    /\ \E k \in 1..Len(modificationLog) : modificationLog[k].kind = "change"

\* the n largest elements of a set of timestamps
MostRecent(S, n) == {t \in S : Cardinality({u \in S : u > t}) < n}

\* C10: with cap N = maxBackups, at most N backups are retained after any
\* number of createBackup calls; after N + 2 successive calls exactly N
\* remain, and they are the N most recent of the calls' timestamps.
C10_BackupCap ==
    /\ Cardinality(DOMAIN backups) <= maxBackups
    /\ (/\ smLast.op = "createBackup"
        /\ Len(backupCalls) = maxBackups + 2
        /\ Len(modificationLog) = 0)
       => /\ Cardinality(DOMAIN backups) = maxBackups
          /\ DOMAIN backups = MostRecent(Range(backupCalls), maxBackups)

\* the confidences of `items` that are numbers strictly below `threshold`
RECURSIVE StrictlyBelow(_, _)
StrictlyBelow(items, threshold) ==
    IF items = <<>> THEN <<>>
    ELSE (IF Head(items) >= 0 /\ Head(items) < threshold
          THEN <<Head(items)>> ELSE <<>>)
         \o StrictlyBelow(Tail(items), threshold)

\* C17: autoQueue(items, threshold) appends to the pending list one new
\* pending item per input item whose confidence is strictly below threshold,
\* in input order, and nothing else; an item at or above the threshold is
\* never queued.  A call that a failed write of an item file ends early has
\* queued a prefix of those items.
C17_AutoQueueExactlyBelow ==
    [][fbLast'.op = "autoQueue" =>
          LET want == StrictlyBelow(fbLast'.items, fbLast'.threshold)
              got == Len(pending') - Len(pending)
          IN  /\ got >= 0 /\ got <= Len(want)
              /\ fbLast'.success => got = Len(want)
              /\ \A k \in 1..Len(pending) : pending'[k] = pending[k]
              /\ \A k \in 1..got :
                    /\ pending'[Len(pending) + k].confidence = want[k]
                    /\ pending'[Len(pending) + k].status = "pending"
                    /\ pending'[Len(pending) + k].uid = nextUuid + k
              /\ nextUuid' = nextUuid + got
              /\ UNCHANGED <<approved, rejected>>]_vars

\* autoQueue of an item above and an item below the threshold returned and
\* the pending list ends with the one below
C17_Witness ==
    /\ fbLast.op = "autoQueue" /\ fbLast.success
    /\ fbLast.items = <<90, 50>> /\ fbLast.threshold = DefaultThreshold
    /\ Len(pending) >= 1
    /\ pending[Len(pending)].confidence = 50

\* C18: no two items of the pending, approved and rejected lists share an id.
C18_UniqueItemIds ==
    \A j, k \in 1..Len(AllItems) : j # k => AllItems[j].id # AllItems[k].id

\* C20: learnFromApproved returns without raising in every queue state; its
\* approval rate is approvedCount / (approvedCount + rejectedCount), 0 or
\* undefined when both counts are 0, and its average rating is the mean of
\* the approved items' ratings, 3 standing for a missing rating.
C20_LearnNeverRaises ==
    fbLast.op = "learnFromApproved" =>
        /\ ~fbLast.threw
        /\ fbLast.insights.approvedCount = Len(approved)
        /\ fbLast.insights.rejectedCount = Len(rejected)
        /\ Len(approved) + Len(rejected) > 0 =>
              fbLast.insights.approvalRate
                  = <<Len(approved), Len(approved) + Len(rejected)>>
        /\ Len(approved) > 0 =>
              fbLast.insights.avgRating = <<RatingSum(approved), Len(approved)>>

\* ---- the scheduler

\* C11: for every valid schedule specification (hourly with a positive
\* interval, daily or weekly with an hour of 0..23, weekly with a day of
\* 0..6) and every current time, calculateNextRun returns a time, and that
\* time is strictly after the current time.
C11_NextRunAfterNow ==
    (schedLast.op = "calculateNextRun" /\ schedLast.spec \in ValidSpecs)
        => /\ schedLast.calc # NullIso
           /\ ParseDate(schedLast.calc) > clock

\* an hourly specification asked in the last millisecond of an hour: the
\* milliseconds are kept, and the next run is one second later
C11_Witness ==
    /\ schedLast.op = "calculateNextRun"
    /\ schedLast.spec \in ValidSpecs
    /\ schedLast.spec.frequency = "hourly"
    /\ ParseDate(schedLast.calc) = clock + 1000

\* the task object n is one of the tasks of the schedule
Scheduled(objs, arr, n) == \E k \in 1..Len(arr) : arr[k] = n

\* a frequency calculateNextRun has a case for
KnownFrequency(task) == task.frequency \in {"hourly", "daily", "weekly"}

\* C12: when the execution of a due task succeeds, the task's lastRun becomes
\* the tick time and its nextRun becomes the next slot of its frequency
\* specification, computed by calculateNextRun when the execution ends, not
\* the retry delay.
C12_SuccessRecomputes ==
    [][(/\ schedLast'.op = "taskDone"
        /\ schedLast'.ok
        /\ ~schedLast'.threw
        /\ Scheduled(taskObjs', arrays'[schedGen'], schedLast'.uid)
        /\ KnownFrequency(taskObjs[schedLast'.uid]))
       => /\ taskObjs'[schedLast'.uid].lastRun = ToISOString(schedLast'.now)
          /\ taskObjs'[schedLast'.uid].nextRun
                = CalculateNextRun(taskObjs[schedLast'.uid], clock)]_vars

\* C13: when the execution of a due task fails, the task's nextRun becomes
\* the tick time plus five minutes and its lastRun stays as it was; the task
\* is therefore due again at every tick at least five minutes after the tick
\* of the failed attempt.
C13_FailureRetries ==
    [][(/\ schedLast'.op = "taskDone"
        /\ ~schedLast'.ok
        /\ Scheduled(taskObjs', arrays'[schedGen'], schedLast'.uid))
       => /\ taskObjs'[schedLast'.uid].nextRun
                = ToISOString(schedLast'.now + RetryDelay)
          /\ taskObjs'[schedLast'.uid].lastRun = taskObjs[schedLast'.uid].lastRun
          /\ \A later \in Instants :
                later >= schedLast'.now + RetryDelay
                    => NextDue(taskObjs', <<schedLast'.uid>>, 1, later)
                         = (IF taskObjs'[schedLast'.uid].enabled THEN 1 ELSE 0)]_vars

\* a task that has run before fails: its lastRun is the time of the earlier
\* run and its nextRun the retry time of the failed one
C13_Witness ==
    /\ schedLast.op = "taskDone"
    /\ ~schedLast.ok
    /\ Scheduled(taskObjs, arrays[schedGen], schedLast.uid)
    /\ taskObjs[schedLast.uid].lastRun # NullIso
    /\ ParseDate(taskObjs[schedLast.uid].lastRun) < schedLast.now
    /\ taskObjs[schedLast.uid].nextRun = ToISOString(schedLast.now + RetryDelay)

\* C14: runs of checkAndRunTasks never overlap: no run starts while the task
\* an earlier run triggered is still executing, so no task is executing twice
\* at the same time, even when an execution outlasts the timer period.
C14_TicksNeverOverlap ==
    \A t1, t2 \in ticks :
        arrays[t1.gen][t1.pos] = arrays[t2.gen][t2.pos] => t1 = t2

\* C15: start() is idempotent.  Called while the loop is running it changes
\* nothing: no second timer, no extra run of checkAndRunTasks.  Called while
\* the loop is stopped, and returning, it sets the loop running, installs
\* exactly one timer and calls checkAndRunTasks once, at once; when its
\* saveSchedule throws, the loop is left marked running with no timer.  At
\* every moment at most one timer is active.
C15_StartIdempotent ==
    /\ [][schedLast'.op = "start"
            => IF isRunning
               THEN UNCHANGED <<taskObjs, arrays, schedGen, schedEnabled,
                                schedLastRun, isRunning, timers, checkInterval,
                                ticks>>
               ELSE /\ isRunning'
                    /\ UNCHANGED <<taskObjs, arrays, schedGen>>
                    /\ IF schedLast'.threw
                       THEN UNCHANGED <<timers, ticks, schedLastRun>>
                       ELSE /\ timers = {}
                            /\ \E t \in timers' :
                                  /\ timers' = {t}
                                  /\ t.next = clock + TimerPeriod
                                  /\ checkInterval' = t.id
                            /\ IF ~hasRunner
                               THEN UNCHANGED <<ticks, schedLastRun>>
                               ELSE IF NextDue(taskObjs, arrays[schedGen], 1,
                                               clock) = 0
                               THEN /\ ticks' = ticks
                                    /\ schedLastRun' = ToISOString(clock)
                               ELSE /\ schedLastRun' = schedLastRun
                                    /\ \E t \in ticks' \ ticks :
                                          /\ ticks' = ticks \cup {t}
                                          /\ t.now = clock]_vars
    /\ [](Cardinality(timers) <= 1)

\* start() called while the loop runs, has its timer and awaits a task
C15_Witness ==
    /\ schedLast.op = "start"
    /\ ~schedLast.ok
    /\ isRunning
    /\ Cardinality(timers) = 1
    /\ ticks # {}

\* C16: in every reachable state each task of the schedule has a nextRun
\* that is not before its lastRun or, when it has never run, not before its
\* creation time.
C16_NextRunNotBeforeLastRun ==
    \A k \in 1..Len(arrays[schedGen]) :
        LET task == taskObjs[arrays[schedGen][k]]
        IN  KnownFrequency(task)
                => /\ task.nextRun # NullIso
                   /\ ParseDate(task.nextRun)
                         >= (IF task.lastRun = NullIso THEN task.createdAt
                             ELSE ParseDate(task.lastRun))

\* C19: the ids of the tasks of the schedule are pairwise distinct after any
\* sequence of addTask calls, calls made at the same clock value included.
C19_UniqueTaskIds ==
    \A j, k \in 1..Len(arrays[schedGen]) :
        taskObjs[arrays[schedGen][j]].id = taskObjs[arrays[schedGen][k]].id
            => j = k

\* ---- the self-modification system, continued

\* the categories in the order of their keywords' priority
CategoryOrder ==
    <<"timeout", "syntax_error", "import_error", "api_error", "resource_error",
      "browser_error">>

\* the category of the words ws: that of the word whose category comes first
\* in CategoryOrder, wherever the word stands; unknown without such a word
CategoryOfWords(ws) ==
    LET hits == {i \in 1..Len(CategoryOrder) :
                    \E k \in 1..Len(ws) :
                        ErrorWords[ws[k]].category = CategoryOrder[i]}
    IN  IF hits = {} THEN "unknown"
        ELSE CategoryOrder[CHOOSE i \in hits : \A j \in hits : i <= j]

\* C21: canSelfModify(failure) is true exactly when the failure's category is
\* timeout, syntax_error, import_error or browser_error; it is true for a
\* text that holds "timeout" and false for a text that holds no keyword.
C21_CanSelfModifyAllowList ==
    smLast.op = "canSelfModify"
        => /\ \A ws \in WordSeqs :
                 TextOf(ws) = smLast.error
                     => smLast.improved
                          = (CategoryOfWords(ws) \in
                               {"timeout", "syntax_error", "import_error",
                                "browser_error"})
           /\ smLast.error = Undefined => ~smLast.improved

\* canSelfModify of "BrowserKey": api_error by priority, not modifiable
C21_Witness ==
    /\ smLast.op = "canSelfModify"
    /\ smLast.error = TextOf(<<7, 5>>)
    /\ ~smLast.improved

\* C22: categorizeFailure returns one value of the closed set of categories:
\* that of the first keyword, in the order timeout, syntax, import, api or
\* key, memory, browser, that occurs in the lower-cased text, whatever the
\* place of the keywords in the text; unknown when none occurs or the text
\* is missing.
C22_FirstKeywordByPriority ==
    smLast.op = "categorizeFailure"
        => /\ smLast.reason \in Range(CategoryOrder) \cup {"unknown"}
           /\ \A ws \in WordSeqs :
                 TextOf(ws) = smLast.error
                     => smLast.reason = CategoryOfWords(ws)
           /\ smLast.error = Undefined => smLast.reason = "unknown"

\* categorizeFailure of "KeyTimeout": timeout, though "key" stands first
C22_Witness ==
    /\ smLast.op = "categorizeFailure"
    /\ smLast.error = TextOf(<<5, 1>>)
    /\ smLast.reason = "timeout"

\* the log entries of the changes of mods whose result in res is a success
LoggedChanges(mods, res) ==
    LET done == SelectSeq([k \in 1..Len(mods) |-> k], LAMBDA k : res[k].success)
    IN  [i \in 1..Len(done) |->
            [kind |-> "change", file |-> mods[done[i]].file,
             change |-> mods[done[i]].change, reason |-> mods[done[i]].reason]]

\* C23: applyModifications returns one result per proposed change, in order.
\* A change whose target file does not exist gives the failed result "File
\* not found" and changes no file; any other error of a change gives a failed
\* result too; the changes after a failed one are still attempted; and each
\* successful change appends one entry with its file, description and reason
\* to the modification log.  (When createBackup throws, before the first
\* change, there are no results and nothing is changed.)
C23_OneResultPerChange ==
    [][(smLast'.op = "applyModifications" /\ smNow' = smNow)
        => LET mods == smLast'.mods
               res == smLast'.results
           IN  IF smLast'.threw
               THEN /\ res = <<>>
                    /\ UNCHANGED <<projFiles, modificationLog>>
               ELSE /\ Len(res) = Len(mods)
                    /\ \A k \in 1..Len(mods) :
                          /\ res[k].file = mods[k].file
                          /\ ~Exists(projFiles, mods[k].file)
                                => /\ ~res[k].success
                                   /\ res[k].error = "File not found"
                          /\ ~res[k].success => res[k].error # NULL
                          /\ (/\ Exists(projFiles, mods[k].file)
                              /\ mods[k].change \in {"increase timeout",
                                                      "add error handling"}
                              /\ faults' = faults)
                                => res[k].success
                    /\ \A f \in DOMAIN projFiles :
                          projFiles'[f] # projFiles[f]
                            <=> \E k \in 1..Len(mods) :
                                    res[k].success /\ mods[k].file = f
                    /\ modificationLog'
                         = modificationLog \o LoggedChanges(mods, res)]_vars

\* a batch whose first change names a missing file and whose second change
\* succeeds
C23_Witness ==
    /\ smLast.op = "applyModifications"
    /\ Len(smLast.results) = 2
    /\ smLast.results[1].error = "File not found"
    /\ smLast.results[2].success
    /\ modificationLog[Len(modificationLog)].reason = "throws"

\* the steps of applyModifications after the backup
ApplyEvents == {"notfound", "failed", "write", "log"}

\* events is analyze, propose, then nothing or the backup followed by the
\* steps of the changes, then test, record
StagesInOrder(events) ==
    LET n == Len(events)
    IN  /\ n >= 4
        /\ events[1] = "analyze" /\ events[2] = "propose"
        /\ events[n - 1] = "test" /\ events[n] = "record"
        /\ \A k \in 3..(n - 2) :
              IF k = 3 THEN events[k] = "backup" ELSE events[k] \in ApplyEvents

\* C24: for a self-modifiable failure, improve() runs analyze, propose,
\* backup, apply, test and record in that order and returns improved equal to
\* the success of the test, whatever the proposed changes and their results;
\* with no proposed change and a passing test it returns improved = TRUE.
\* (Stated for the calls whose createBackup does not fail: that failure is
\* propagated to the caller.)
C24_StagesThenTestResult ==
    [][(/\ smLast'.op = "improve" /\ smNow' = smNow
        /\ CanSelfModify(smLast'.error)
        /\ "backup_failed" \notin Range(smLast'.events))
       => /\ ~smLast'.threw
          /\ StagesInOrder(smLast'.events)
          /\ smLast'.improved
               = TestModificationsOn(projFiles', smLast'.parses)
          /\ (smLast'.mods = <<>> /\ smLast'.parses /\ Exists(projFiles, "index.js"))
               => smLast'.improved]_vars

\* C25: when the test step of improve() reports success = FALSE no file is
\* reverted: every file the apply step wrote keeps its modified content, and
\* the backups are as createBackup left them.
C25_NoAutoRevert ==
    [][(/\ smLast'.op = "improve" /\ smNow' = smNow
        /\ CanSelfModify(smLast'.error)
        /\ ~smLast'.threw /\ ~smLast'.improved)
       => LET mods == smLast'.mods
              res == smLast'.results
          IN  /\ \A k \in 1..Len(mods) :
                    res[k].success
                      => /\ projFiles'[mods[k].file]
                              = ApplyChange(projFiles[mods[k].file], mods[k].change)
                         /\ projFiles'[mods[k].file] # projFiles[mods[k].file]
              /\ backups' = IF mods = <<>> THEN backups
                            ELSE CreateBackupOn(projFiles, backups, maxBackups,
                                                smNow, "ok").backups
              /\ mods # <<>>
                    => \A f \in {"index.js", "package.json"} :
                          backups'[smNow][f] = projFiles[f]]_vars

\* an improve() that wrote index.js and whose test failed
C25_Witness ==
    /\ smLast.op = "improve"
    /\ ~smLast.threw /\ ~smLast.improved
    /\ Len(smLast.results) = 1 /\ smLast.results[1].success
    /\ smLast.results[1].file = "index.js"
    /\ projFiles["index.js"] > 0

\* C26: after revertToBackup of a backup, every file of the backup set that
\* existed when that backup was made has the content it had then; and
\* revertToBackup of a name that is no backup returns the failure "Backup not
\* found" and leaves the files as they are.
C26_RevertRestoresBackupSet ==
    [][(smLast'.op = "revertToBackup" /\ smNow' = smNow)
       => LET name == smLast'.backup
          IN  IF name \in DOMAIN backups
              THEN /\ ~smLast'.threw /\ smLast'.improved
                   /\ \A f \in Range(FilesToBackup) :
                         Exists(filesAtBackup[name], f)
                           => projFiles'[f] = filesAtBackup[name][f]
              ELSE /\ ~smLast'.improved
                   /\ smLast'.reason = "Backup not found"
                   /\ projFiles' = projFiles]_vars

\* C27: generateModifications always returns a list and never raises: with no
\* language model, a failing one, or an answer that is not a parsable list of
\* changes, the list is empty and improve() goes on as with no proposed
\* change: no backup, no write, then the test and the record.
C27_NoListMeansNoChanges ==
    [][(/\ smLast'.op = "improve" /\ smNow' = smNow
        /\ CanSelfModify(smLast'.error)
        /\ smLast'.mods = <<>>)
       => /\ ~smLast'.threw
          /\ smLast'.events = <<"analyze", "propose", "test", "record">>
          /\ smLast'.results = <<>>
          /\ UNCHANGED <<projFiles, backups>>]_vars

\* the hours counted from the start of the model's time that iso names
HourOf(iso) == iso[1] * 24 + iso[2]

\* C30: for every hour h in 0..23, calculateNextRun of daily(h) is the next
\* calendar day at hour h with minutes and seconds zero; of weekly(d, h) a day
\* of weekday d, 1 to 7 days after today, at hour h; and of hourly(n) the
\* current hour plus n with minutes and seconds zero.
C30_NextRunAtGivenHour ==
    (schedLast.op = "calculateNextRun" /\ schedLast.spec \in ValidSpecs)
        => LET task == schedLast.spec
               next == schedLast.calc
           IN  /\ next # NullIso
               /\ next[3] = 0 /\ next[4] = 0
               /\ task.frequency = "daily"
                     => next[1] = GetDate(clock) + 1 /\ next[2] = task.hour
               /\ task.frequency = "weekly"
                     => /\ next[1] % DaysPerWeek = task.dayOfWeek
                        /\ next[1] - GetDate(clock) \in 1..DaysPerWeek
                        /\ next[2] = task.hour
               /\ task.frequency = "hourly"
                     => HourOf(next)
                          = HourOf(ToISOString(clock)) + task.interval

\* =========================================================== memory system
\* an upper-case letter and its lower-case form
CasePairs ==
    {<<"A", "a">>, <<"B", "b">>, <<"I", "i">>, <<"K", "k">>, <<"M", "m">>,
     <<"O", "o">>, <<"P", "p">>, <<"R", "r">>, <<"S", "s">>, <<"T", "t">>}
SameLetter(a, b) == a = b \/ <<a, b>> \in CasePairs \/ <<b, a>> \in CasePairs

\* text contains q, letter case set aside
ContainsNoCase(text, q) ==
    \E k \in 0..(Len(text) - Len(q)) :
        \A j \in 1..Len(q) : SameLetter(text[k + j], q[j])

\* the topic, the content or a tag of entry contains q, letter case set aside
EntryContains(entry, q) ==
    \/ entry.topic # Undefined /\ ContainsNoCase(entry.topic, q)
    \/ entry.content # Undefined /\ ContainsNoCase(entry.content, q)
    \/ /\ entry.tags # NoTags
       /\ \E k \in 1..Len(entry.tags) : ContainsNoCase(entry.tags[k], q)

\* C28: after addKnowledge of an entry with topic X and content Y,
\* searchKnowledge(X) returns a list holding an entry with content Y; and
\* searchKnowledge returns exactly the entries whose topic, content or one of
\* whose tags contains the query, letter case set aside, in insertion order.
C28_KnowledgeRoundTrip ==
    [][/\ (memLast'.op = "addKnowledge" /\ ~memLast'.threw)
            => LET added == memLast'.result[1].entry
               IN  /\ knowledge' = Append(knowledge, added)
                   /\ added.topic # Undefined
                         => \E k \in 1..Len(knowledge') :
                               /\ knowledge'[k].content = added.content
                               /\ knowledge'[k]
                                    \in Range(SearchKnowledgeOn(knowledge',
                                                                added.topic))
       /\ (memLast'.op = "searchKnowledge" /\ ~memLast'.threw)
            => LET res == memLast'.result
                   q == memLast'.query
               IN  /\ \A e \in Range(knowledge') :
                         EntryContains(e, q)
                           <=> \E k \in 1..Len(res) : res[k].entry = e
                   /\ \A k \in 1..Len(res) : res[k].entry \in Range(knowledge')
                   /\ \A i, j \in 1..Len(res) :
                         i < j => res[i].entry.id < res[j].entry.id
                   /\ (\E e \in Range(knowledge') : e.topic = q)
                         => \E k \in 1..Len(res) :
                               res[k].entry.topic = q]_vars

\* a search for the topic of a stored entry, in another letter case, that
\* returns that entry and leaves another entry out
C28_Witness ==
    /\ memLast.op = "searchKnowledge" /\ ~memLast.threw
    /\ memLast.query = <<"a", "i">>
    /\ Len(knowledge) = 2 /\ Len(memLast.result) = 1
    /\ memLast.result[1].entry.topic = <<"A", "I">>
    /\ memLast.result[1].entry.content = <<"r", "a", "g">>
    /\ memLast.result[1].entry = knowledge[2]

\* C29: semanticSearch(query, k) returns results of one shape with or
\* without the similarity backend: every result carries a similarity, and
\* when the backend is missing or its search fails the results are the
\* keyword search cut to k entries, each with the fixed similarity 1.
C29_FallbackCarriesScore ==
    [][memLast'.op = "semanticSearch"
        => LET res == memLast'.result
               found == SliceTo(SearchKnowledgeOn(knowledge', memLast'.query),
                                memLast'.nResults)
           IN  /\ ~memLast'.threw
               /\ \A k \in 1..Len(res) : res[k].similarity # NoScore
               /\ memLast'.fellBack
                     => /\ Len(res) = Len(found)
                        /\ \A k \in 1..Len(res) :
                              /\ res[k].entry = found[k]
                              /\ res[k].similarity = One]_vars

\* ================================================= scheduler, second part
\* the creation numbers of the tasks of the schedule
ScheduleUids(arrs, gen) == {arrs[gen][k] : k \in 1..Len(arrs[gen])}

\* C31: a checkAndRunTasks run executes, and changes, only enabled tasks that
\* are due at its time: the lastRun and nextRun of a task of the schedule
\* change only at the end of its own execution, an execution begins only for
\* an enabled task whose nextRun is not later than the time the run read; and
\* the schedule loses a task only in removeTask, never in a tick, start or
\* stop.
C31_OnlyDueEnabledTasksChange ==
    [][/\ \A uid \in ScheduleUids(arrays', schedGen') \cap (1..Len(taskObjs)) :
            (\/ taskObjs'[uid].lastRun # taskObjs[uid].lastRun
             \/ taskObjs'[uid].nextRun # taskObjs[uid].nextRun)
               => /\ schedLast'.op = "taskDone"
                  /\ schedLast'.uid = uid
                  /\ taskObjs[uid].enabled
       /\ \A t \in ticks' \ ticks :
            LET task == taskObjs'[arrays'[t.gen][t.pos]]
            IN  /\ task.enabled
                /\ t.now >= ParseDate(task.nextRun)
       /\ (\E uid \in ScheduleUids(arrays, schedGen) :
               uid \notin ScheduleUids(arrays', schedGen'))
            => schedLast'.op = "removeTask"
       /\ schedLast'.op \in {"timer", "taskDone", "start", "stop", "enable"}
            => arrays'[schedGen'] = arrays[schedGen]]_vars

\* a run has executed one task of a schedule that also holds a disabled task
\* whose nextRun has passed, which is as it was added
C31_Witness ==
    /\ schedLast.op = "taskDone"
    /\ Len(arrays[schedGen]) = 2
    /\ \E uid \in ScheduleUids(arrays, schedGen) :
          /\ ~taskObjs[uid].enabled
          /\ ParseDate(taskObjs[uid].nextRun) <= schedLast.now
          /\ taskObjs[uid].lastRun = NullIso
          /\ uid # schedLast.uid
    /\ schedLast.uid \in ScheduleUids(arrays, schedGen)

\* ================================================== session, second part
\* C32: runSynthesis attempts synthesis for each of the top 3 tags, and a
\* failure of synthesis for one topic does not prevent synthesis of the
\* remaining topics: when runSynthesis has ended, synthesize() has been called
\* once for each of the first three tags.
C32_SynthesisForEachTopTag ==
    (\E k \in 1..Len(sessLog) : sessLog[k] \in {"synthesis", "synthesis threw"})
        => synthCalls = (IF topTags < 3 THEN topTags ELSE 3)

\* C33: executeTask queues a task's result for review exactly when its quality
\* score is below 0.7: such a task adds exactly one pending item carrying the
\* score as confidence; a task scoring 0.7 or more, and a task whose research,
\* verify or evaluation step failed, leave the pending list as it is.
C33_QueuedExactlyWhenLowScore ==
    [][taskIdx' = taskIdx + 1 =>
        LET score == taskScores'[Len(taskScores')]
        IN  IF score # -1 /\ score < ConfidenceThreshold
            THEN /\ Len(pending') = Len(pending) + 1
                 /\ SubSeq(pending', 1, Len(pending)) = pending
                 /\ pending'[Len(pending')].status = "pending"
                 /\ pending'[Len(pending')].confidence = score
                 /\ pending'[Len(pending')].uid = nextUuid'
                 /\ nextUuid' = nextUuid + 1
            ELSE /\ pending' = pending
                 /\ nextUuid' = nextUuid]_vars

\* two tasks were executed: the first scored below 0.7 and is pending with its
\* score, the second scored 0.7 and added nothing
C33_Witness ==
    /\ Len(taskScores) = 2
    /\ taskScores[1] < ConfidenceThreshold /\ taskScores[1] # -1
    /\ taskScores[2] = ConfidenceThreshold
    /\ taskOutcomes = <<"none", "none">>
    /\ Len(pending) = 1 /\ pending[1].confidence = taskScores[1]

\* ================================================ feedback queue, second part
\* C34: every queueForReview call adds exactly one new item at the end of the
\* pending list and merges nothing: the items already pending stay as they
\* are, the new item is an object of its own whose status is pending whatever
\* status the supplied record carries, and the approved and rejected lists
\* are unchanged.
C34_QueueAddsOnePending ==
    [][(fbLast'.op = "queueForReview" /\ fbLast' # fbLast)
       => /\ Len(pending') = Len(pending) + 1
          /\ SubSeq(pending', 1, Len(pending)) = pending
          /\ pending'[Len(pending')].status = "pending"
          /\ pending'[Len(pending')].uid = fbLast'.uid
          /\ fbLast'.uid \notin UidsOf(AllItems)
          /\ approved' = approved
          /\ rejected' = rejected]_vars

\* the same record, carrying the status approved and the caller's id, was
\* queued twice: two pending items that differ only in being two objects
C34_Witness ==
    /\ fbLast.op = "queueForReview"
    /\ Len(pending) = 2
    /\ pending[1].uid # pending[2].uid
    /\ [pending[1] EXCEPT !.uid = 0] = [pending[2] EXCEPT !.uid = 0]
    /\ pending[1].id = CallerOwnId
    /\ pending[2].status = "pending"

\* C35: the tasks of a session run one after another in the prioritized
\* order, in which every task of reason 'knowledge gap' precedes every
\* exploratory task; a task starts only when each task before it in that
\* order has finished or failed.
C35_GapTasksFirstInOrder ==
    /\ \A i \in 1..Len(sessTasks), j \in 1..Len(sessTasks) :
          (sessTasks[i] = "exploration" /\ sessTasks[j] = "knowledge gap") => j < i
    /\ taskIdx <= Len(sessTasks)
    /\ Len(taskOutcomes) = taskIdx

\* a session of two gap tasks and an exploratory one has run the gap tasks,
\* one of which failed, and not yet the exploratory task
C35_Witness ==
    /\ sessTasks = <<"knowledge gap", "knowledge gap", "exploration">>
    /\ taskIdx = 2
    /\ "research" \in {taskOutcomes[k] : k \in 1..Len(taskOutcomes)}

\* ================================================= scheduler, third part
\* C36: after stop() has returned and until start() is called again, no
\* execution of a scheduled task begins, even when a checkAndRunTasks run was
\* awaiting a task at the time of the stop() and other due tasks remain in
\* its loop: a run begins awaiting a task only while the loop is running.
C36_NoExecutionAfterStop ==
    [][(ticks' \ ticks # {}) => isRunning']_vars

\* ================================================== session, third part
\* C37: the self-modification cycle of a session changes nothing: the
\* descriptor "n tasks failed" is categorized as unknown for every n >= 1, so
\* the improve() call of runReflection returns cannot_self_modify, and no step
\* of a session creates a backup, writes a project file or adds to the
\* modification log.
C37_SessionNeverSelfModifies ==
    [][/\ UNCHANGED <<projFiles, backups, modificationLog, backupCalls>>
       /\ improveCalls' # improveCalls
             => /\ \A n \in 1..MaxTasks :
                      CategorizeFailure(TasksFailedText(n)) = "unknown"
                /\ smLast'.op = "improve"
                /\ smLast'.error = TasksFailedText(tasksFailed)
                /\ ~smLast'.improved /\ ~smLast'.threw
                /\ smLast'.reason = "cannot_self_modify"]_vars

\* improve() was called for a session in which two tasks failed, while the
\* model had a proposal to change a file ready
C37_Witness ==
    /\ sessPc = "record"
    /\ tasksFailed = 2
    /\ improveCalls = <<TasksFailedText(2)>>
    /\ smLast.op = "improve" /\ smLast.reason = "cannot_self_modify"

\* ================================================ feedback queue, third part
\* the places of the three lists that hold the item with creation number u
PlacesOf(p, a, r, u) ==
    {<<"pending", k>> : k \in {j \in 1..Len(p) : p[j].uid = u}}
    \cup {<<"approved", k>> : k \in {j \in 1..Len(a) : a[j].uid = u}}
    \cup {<<"rejected", k>> : k \in {j \in 1..Len(r) : r[j].uid = u}}

\* C38: in every state of the feedback queue each item created by
\* queueForReview is held by exactly one of the lists pending, approved and
\* rejected, and its status names that list; an item leaves the lists only
\* when archiveOldItems removes it from approved.
C38_OneListPerItem ==
    [][/\ \A u \in UidsOf(AllItems') :
             /\ Cardinality(PlacesOf(pending', approved', rejected', u)) = 1
             /\ \A pl \in PlacesOf(pending', approved', rejected', u) :
                   ItemOf(AllItems', u).status = pl[1]
       /\ \A u \in 1..nextUuid' :
             u \notin UidsOf(AllItems')
                => \/ u \notin UidsOf(AllItems) /\ u <= nextUuid
                   \/ /\ fbLast'.op = "archiveOldItems"
                      /\ u \in UidsOf(approved)]_vars

\* archiveOldItems has removed an approved item while a rejected item is held
C38_Witness ==
    /\ fbLast.op = "archiveOldItems" /\ fbLast.success
    /\ Cardinality(UidsOf(AllItems)) < nextUuid
    /\ Len(rejected) = 1

\* ================================================= scheduler, fourth part
\* A scheduler that is set up and started and then left to its timer: tasks
\* are added, start() is called, the setInterval callback fires every minute
\* as the clock advances, and every awaited runTask settles, well or not,
\* within MaxRunMinutes; schedule.json can be written.
MaxLiveMinutes == 6
MaxRunMinutes == 1
Horizon == StartTime + MaxLiveMinutes * MsPerMinute
LiveInstants == {StartTime + k * MsPerMinute : k \in 1..MaxLiveMinutes}

LiveTimer == \E t \in timers : TimerFire(t) /\ UNCHANGED notSched
LiveTaskDone ==
    \E tick \in ticks, ok \in BOOLEAN :
        TaskDone(tick, ok, FALSE) /\ UNCHANGED notSched
LiveAdvance ==
    \E to \in LiveInstants :
        /\ \A tick \in ticks : to - tick.now <= MaxRunMinutes * MsPerMinute
        /\ Advance(to) /\ UNCHANGED notSched

LiveNext ==
    \/ \E task \in TaskInputs :
          ~isRunning /\ AddTask(task, FALSE) /\ UNCHANGED notSched
    \/ Start(FALSE) /\ UNCHANGED notSched
    \/ LiveTimer
    \/ LiveTaskDone
    \/ LiveAdvance

\* setInterval keeps calling back, a pending runTask settles, time passes
LiveSpec ==
    /\ SchedSpecInit /\ [][LiveNext]_vars
    /\ WF_vars(LiveTimer) /\ WF_vars(LiveTaskDone) /\ WF_vars(LiveAdvance)

\* task u is enabled and its nextRun has passed, in a running loop that has
\* a session runner
DueTask(u) ==
    /\ isRunning /\ hasRunner
    /\ \E k \in 1..Len(arrays[schedGen]) : arrays[schedGen][k] = u
    /\ taskObjs[u].enabled
    /\ ParseDate(taskObjs[u].nextRun) <= clock

\* the timer fires again before the clock of the model ends
TicksRemain == \E t \in timers : t.next <= Horizon

\* an execution of task u has just ended
RanTask(u) == schedLast.op = "taskDone" /\ schedLast.uid = u

RECURSIVE SumCompleted(_)
SumCompleted(sessions) ==
    IF sessions = <<>> THEN 0
    ELSE (IF Head(sessions).tasksCompleted = -1 THEN 0
          ELSE Head(sessions).tasksCompleted)
         + SumCompleted(Tail(sessions))

\* C40: in every state of the metrics log totalTasks is the sum of
\* tasksCompleted over the recorded sessions; a recordSession call that
\* returns appends exactly one session record and changes no earlier one; and
\* getStats, searchKnowledge and identifyGaps change neither the metrics log
\* nor the knowledge file.
C40_MetricsLogConsistent ==
    [][/\ totalTasks' = SumCompleted(metricsSessions')
       /\ (memLast'.op = "recordSession" /\ ~memLast'.threw)
             => /\ Len(metricsSessions') = Len(metricsSessions) + 1
                /\ SubSeq(metricsSessions', 1, Len(metricsSessions)) = metricsSessions
       /\ memLast'.op \in {"getStats", "searchKnowledge", "identifyGaps"}
             => UNCHANGED <<metricsSessions, totalTasks, knowledge>>]_vars

\* three sessions are recorded, one of them without a tasksCompleted, and
\* identifyGaps has then found a topic of its list covered
C40_Witness ==
    /\ Len(metricsSessions) = 3
    /\ totalTasks = 3
    /\ \E k \in 1..3 : metricsSessions[k].tasksCompleted = -1
    /\ memLast.op = "identifyGaps" /\ ~memLast.threw
    /\ Len(memLast.result) = Len(PotentialGaps) - 1

====
